---------------------------- MODULE Spec2Model ----------------------------
(***************************************************************************)
(* A model of the order-flow trading bot (src/Abot): the run loop of       *)
(* ProductionOrderFlowBot, the signal fusion of EnhancedOrderFlowStrategy, *)
(* OrderExecutor's gate sequence, PositionSizer, RiskManager and the       *)
(* account state of EnhancedDataCollector.                                 *)
(*                                                                         *)
(* Numbers.  Python floats are modelled exactly: money and prices are      *)
(* integers, percentages that are not whole are scaled (the scale is in    *)
(* the name), and quotients are kept as fractions [n, d].                  *)
(* Time is counted in ticks; a day has two seconds of                    *)
(* TicksPerSecond ticks, so that a datetime has a sub-second part as the   *)
(* microsecond field of Python's datetime.                                 *)
(***************************************************************************)
EXTENDS Integers, Sequences, FiniteSets, TLC

VARIABLES
    \* BotConfig fields that vary (the rest are the constants below)
    ENABLE_TRADING, EMERGENCY_STOP, POSITION_SIZING_METHOD,
    \* ProductionOrderFlowBot
    is_running, pc, analysis_counter, signal, monitored, error_logged,
    \* EnhancedDataCollector
    current_price, account_balance, open_positions, daily_pnl, daily_trades,
    \* RiskManager
    active_stops, daily_reset_time,
    \* OrderExecutor
    orders,
    \* the wall clock read by datetime.now()
    now,
    \* MarketConditionAnalyzer
    current_regime, volatility_state,
    \* VolumeProfile
    profile, poc, value_area_low, value_area_high,
    \* DeltaDivergenceDetector
    delta_history,
    \* what the last analyze_market / execute_signal call did
    steps, gates, submitted,
    \* the last direct call of a risk-layer function: its arguments and result
    last_call

cfgVars   == <<ENABLE_TRADING, EMERGENCY_STOP, POSITION_SIZING_METHOD>>
botVars   == <<is_running, pc, analysis_counter, signal, monitored, error_logged>>
acctVars  == <<account_balance, open_positions, daily_pnl, daily_trades>>
riskVars  == <<active_stops, daily_reset_time, orders>>
vpVars    == <<profile, poc, value_area_low, value_area_high>>
condVars  == <<current_regime, volatility_state, vpVars, delta_history>>
callVars  == <<steps, gates, submitted>>
vars      == <<cfgVars, botVars, current_price, acctVars, riskVars, now,
               condVars, callVars, last_call>>

---------------------------------------------------------------------------
(* BotConfig: src/Abot/config.py *)

RISK_PER_TRADE_PERCENT   == 1
FIXED_POSITION_SIZE_USDT == 50
KELLY_WIN_RATE_X100      == 55
KELLY_RISK_REWARD        == 2
KELLY_FRACTION_X100      == 25
MAX_ACCOUNT_RISK_PERCENT == 5
MAX_DAILY_LOSS_PERCENT   == 3
MAX_POSITIONS            == 3
STOP_LOSS_PERCENT        == 2
TAKE_PROFIT_PERCENT      == 4
TRAILING_STOP_ENABLED    == TRUE
TRAILING_STOP_PERCENT_X10 == 15
MIN_VOLUME_24H_MUSD      == 1000
MIN_VOLATILITY_PERCENT_X10 == 5
MAX_VOLATILITY_PERCENT_X10 == 100
MAX_SPREAD_BIPS          == 50
TREND_THRESHOLD_BP       == 200
RANGING_THRESHOLD_BP     == 50
MIN_SIGNAL_STRENGTH      == 60
REQUIRE_TREND_CONFIRMATION == TRUE
EMA_TREND                == 200
VP_PRICE_BINS            == 100
VP_VALUE_AREA_PERCENT    == 70
DELTA_DIVERGENCE_PERIODS == 14
DELTA_DIVERGENCE_THRESHOLD_X10 == 3
IMBALANCE_THRESHOLD_X100 == 70

\* literals of the analyzers
REGIME_PERIODS           == 50
VOLATILITY_PERIODS       == 60
NO_BOOK_SPREAD           == 1000
ANALYSIS_EVERY           == 5
ACCOUNT_SYNC_EVERY       == 60

---------------------------------------------------------------------------
(* Bounds of the model *)

TicksPerSecond == 2
MaxDay         == 2
MaxCounter     == 5
MaxWindow      == 3
\* executions recorded in self.orders by direct calls of execute_signal
MaxOrders      == 2

\* a day of two seconds
TicksPerDay == 2 * TicksPerSecond
MaxNow      == (MaxDay + 1) * TicksPerDay - 1
Times       == 0 .. MaxNow

Balances    == {-100, 0, 100}
DailyPnls   == {-3, -2, 0}
Prices      == {1000, 1200}
EntryPrices == {0} \cup Prices
StopPrices  == {0, 980, 1000, 1020}
Strengths   == {50, 60, 62, 100}
SizerBalances == Balances \cup {10}
SizingMethods == {"fixed_percent", "fixed_dollar", "kelly", "unknown"}

---------------------------------------------------------------------------
(* Fractions *)

Abs(x) == IF x < 0 THEN -x ELSE x

Max(a, b) == IF a >= b THEN a ELSE b

Min(a, b) == IF a <= b THEN a ELSE b

RECURSIVE GCD(_, _)
GCD(a, b) == IF b = 0 THEN a ELSE GCD(b, a % b)

\* the fraction n/d in lowest terms with a positive denominator (d # 0)
Frac(n, d) ==
    LET g == GCD(Abs(n), Abs(d))
        s == IF d < 0 THEN -1 ELSE 1
    IN  [n |-> s * (n \div g), d |-> s * (d \div g)]

Zero == [n |-> 0, d |-> 1]

FMul(a, b) == Frac(a.n * b.n, a.d * b.d)

FLess(a, b) == a.n * b.d < b.n * a.d

---------------------------------------------------------------------------
(* datetime *)

Day(t) == t \div TicksPerDay

\* datetime.replace(hour=0, minute=0, second=0): the date and the microsecond
\* field are kept
ReplaceHMS0(t) == Day(t) * TicksPerDay + (t % TicksPerSecond)

---------------------------------------------------------------------------
(* PositionSizer: src/Abot/position_sizer.py *)

\* a PositionSizeResult; raised = TRUE stands for the ZeroDivisionError that
\* leaves the function instead of a result
SizeResult(q, notional, risk, m) ==
    [quantity_btc |-> q, notional_usdt |-> notional, risk_usdt |-> risk,
     method |-> m, raised |-> FALSE]

SizeRaised ==
    [quantity_btc |-> Zero, notional_usdt |-> Zero, risk_usdt |-> Zero,
     method |-> "ZeroDivisionError", raised |-> TRUE]

fixed_percent_sizing(balance, entry_price, risk_per_btc) ==
    LET risk_amount == Frac(balance * RISK_PER_TRADE_PERCENT, 100) IN
    IF risk_per_btc = 0 THEN SizeRaised          \* risk_amount / 0.0
    ELSE LET quantity_btc == Frac(risk_amount.n, risk_amount.d * risk_per_btc) IN
         SizeResult(quantity_btc, FMul(quantity_btc, Frac(entry_price, 1)),
                    risk_amount, "fixed_percent")

fixed_dollar_sizing(entry_price, risk_per_btc) ==
    LET notional_usdt == Frac(FIXED_POSITION_SIZE_USDT, 1)
        quantity_btc  == Frac(FIXED_POSITION_SIZE_USDT, entry_price)
    IN  SizeResult(quantity_btc, notional_usdt,
                   FMul(quantity_btc, Frac(risk_per_btc, 1)), "fixed_dollar")

kelly_sizing(balance, entry_price, risk_per_btc, signal_strength) ==
    LET \* ((win_rate * risk_reward) - (1 - win_rate)) / risk_reward
        kelly_raw  == Frac(KELLY_WIN_RATE_X100 * KELLY_RISK_REWARD
                             - (100 - KELLY_WIN_RATE_X100),
                           100 * KELLY_RISK_REWARD)
        kelly_pos  == IF kelly_raw.n < 0 THEN Zero ELSE kelly_raw
        kelly_frac == FMul(kelly_pos, Frac(KELLY_FRACTION_X100, 100))
        kelly_percent == FMul(kelly_frac, Frac(signal_strength, 100))
        risk_amount   == FMul(Frac(balance, 1), kelly_percent)
    IN  IF risk_per_btc = 0 THEN SizeRaised      \* risk_amount / 0.0
        ELSE LET quantity_btc == Frac(risk_amount.n, risk_amount.d * risk_per_btc) IN
             SizeResult(quantity_btc, FMul(quantity_btc, Frac(entry_price, 1)),
                        risk_amount, "kelly")

NoBalanceAfterDivision(balance, entry_price, stop_loss_price, signal_strength, method) ==
    IF entry_price = 0 THEN SizeRaised
    ELSE IF balance <= 0 THEN SizeResult(Zero, Zero, Zero, "no_balance")
    ELSE fixed_percent_sizing(balance, entry_price, Abs(entry_price - stop_loss_price))

calculate_position_size(balance, entry_price, stop_loss_price, signal_strength, method) ==
    IF balance <= 0 THEN SizeResult(Zero, Zero, Zero, "no_balance")
    ELSE LET risk_per_btc == Abs(entry_price - stop_loss_price) IN
         IF entry_price = 0 THEN SizeRaised      \* risk_per_btc / entry_price
         ELSE CASE method = "fixed_percent" ->
                     fixed_percent_sizing(balance, entry_price, risk_per_btc)
                [] method = "fixed_dollar" ->
                     fixed_dollar_sizing(entry_price, risk_per_btc)
                [] method = "kelly" ->
                     kelly_sizing(balance, entry_price, risk_per_btc, signal_strength)
                [] OTHER ->
                     fixed_percent_sizing(balance, entry_price, risk_per_btc)

\* abs(daily_pnl) / balance * 100 >= percent, for balance # 0
LossPercentAtLeast(pnl, balance, percent) ==
    IF balance > 0 THEN Abs(pnl) * 100 >= percent * balance
    ELSE Abs(pnl) * 100 <= percent * balance

\* (is_valid, reason); reason "ZeroDivisionError" stands for the exception
\* that leaves the function instead of a result
check_risk_limits(position_size, balance, pnl, n_open) ==
    LET max_risk == Frac(balance * MAX_ACCOUNT_RISK_PERCENT, 100) IN
    IF FLess(max_risk, position_size.risk_usdt)
    THEN [is_valid |-> FALSE, reason |-> "risk_exceeds_max", raised |-> FALSE]
    ELSE IF pnl < 0 /\ balance = 0
    THEN [is_valid |-> FALSE, reason |-> "ZeroDivisionError", raised |-> TRUE]
    ELSE IF pnl < 0 /\ LossPercentAtLeast(pnl, balance, MAX_DAILY_LOSS_PERCENT)
    THEN [is_valid |-> FALSE, reason |-> "daily_loss_limit", raised |-> FALSE]
    ELSE IF n_open >= MAX_POSITIONS
    THEN [is_valid |-> FALSE, reason |-> "max_positions", raised |-> FALSE]
    ELSE [is_valid |-> TRUE, reason |-> "valid", raised |-> FALSE]

---------------------------------------------------------------------------
(* RiskManager.check_daily_limits: src/Abot/risk_manager.py *)

\* the call at time t: the fields it leaves behind and what it returns
\* ("ok", "blocked", or "ZeroDivisionError" for the exception)
check_daily_limits(t, reset_time, pnl, trades, balance) ==
    LET due    == t > reset_time + TicksPerDay
        pnl1   == IF due THEN 0 ELSE pnl
        value  == IF pnl1 < 0
                  THEN IF balance = 0 THEN "ZeroDivisionError"
                       ELSE IF LossPercentAtLeast(pnl1, balance, MAX_DAILY_LOSS_PERCENT)
                            THEN "blocked" ELSE "ok"
                  ELSE "ok"
    IN  [reset            |-> due,
         daily_pnl        |-> pnl1,
         daily_trades     |-> IF due THEN 0 ELSE trades,
         daily_reset_time |-> IF due THEN ReplaceHMS0(t) ELSE reset_time,
         value            |-> value]

---------------------------------------------------------------------------
(* TechnicalIndicators.detect_ema_crossover: src/Abot/technical_indicators.py *)

CrossoverOnTouch(fast_ema, slow_ema, prev_fast, prev_slow) ==
    IF prev_fast <= prev_slow /\ fast_ema >= slow_ema THEN "bullish"
    ELSE IF prev_fast >= prev_slow /\ fast_ema < slow_ema THEN "bearish"
    ELSE "none"

detect_ema_crossover(fast_ema, slow_ema, prev_fast, prev_slow) ==
    IF prev_fast <= prev_slow /\ fast_ema > slow_ema THEN "bullish"
    ELSE IF prev_fast >= prev_slow /\ fast_ema < slow_ema THEN "bearish"
    ELSE "none"

---------------------------------------------------------------------------
(* MarketConditionAnalyzer: src/Abot/market_conditions.py                  *)
(* A market snapshot c gives what the collector holds when the analyzer    *)
(* runs: the number of closed 15m and 1m candles (k15, k1), the price      *)
(* change over the 15m window in basis points, the two EMAs, the 1m        *)
(* volatility in tenths of a percent, the order book (sets of prices with  *)
(* a quantity) and the 24h quote volume in millions of USDT as the ticker  *)
(* call returns it (ticker_ok = FALSE: the call fails).                    *)

\* get_closes(interval, periods): no closes unless `periods` candles are held
EnoughCloses(k, periods) == k >= periods

RegimeWithoutEmaTest(c) ==
    IF ~EnoughCloses(c.k15, REGIME_PERIODS) THEN "unknown"
    ELSE IF c.change_bp > TREND_THRESHOLD_BP THEN "trending_up"
    ELSE IF c.change_bp < -TREND_THRESHOLD_BP THEN "trending_down"
    ELSE IF Abs(c.change_bp) < RANGING_THRESHOLD_BP THEN "ranging"
    ELSE "transitioning"

detect_regime(c) ==
    IF ~EnoughCloses(c.k15, REGIME_PERIODS) THEN "unknown"
    ELSE IF c.change_bp > TREND_THRESHOLD_BP /\ c.ema_20 > c.ema_50 THEN "trending_up"
    ELSE IF c.change_bp < -TREND_THRESHOLD_BP /\ c.ema_20 < c.ema_50 THEN "trending_down"
    ELSE IF Abs(c.change_bp) < RANGING_THRESHOLD_BP THEN "ranging"
    ELSE "transitioning"

measure_volatility(c) ==
    IF ~EnoughCloses(c.k1, VOLATILITY_PERIODS) THEN "normal"
    ELSE IF c.volatility_x10 < MIN_VOLATILITY_PERCENT_X10 THEN "low"
    ELSE IF c.volatility_x10 > MAX_VOLATILITY_PERCENT_X10 THEN "extreme"
    ELSE IF c.volatility_x10 * 10 > MAX_VOLATILITY_PERCENT_X10 * 7 THEN "high"
    ELSE "normal"

SetMax(S) == CHOOSE x \in S : \A y \in S : y <= x

SetMin(S) == CHOOSE x \in S : \A y \in S : x <= y

\* the spread in basis points, as a fraction
calculate_spread(bids, asks) ==
    IF bids = {} \/ asks = {} THEN Frac(NO_BOOK_SPREAD, 1)
    ELSE LET best_bid == SetMax(bids)
             best_ask == SetMin(asks)
         IN  Frac((best_ask - best_bid) * 10000, best_bid)

get_24h_volume(c) == IF c.ticker_ok THEN c.volume_musd ELSE 0

ConditionsIgnoringVolume(c) ==
    LET regime     == detect_regime(c)
        volatility == measure_volatility(c)
        spread     == calculate_spread(c.bids, c.asks)
        wide       == FLess(Frac(MAX_SPREAD_BIPS, 1), spread)
        volume_24h == get_24h_volume(c)
        thin       == volume_24h < MIN_VOLUME_24H_MUSD
    IN  [regime       |-> regime,
         volatility   |-> volatility,
         spread_bips  |-> spread,
         volume_24h   |-> volume_24h,
         is_tradeable |-> ~wide,
         warnings     |-> (IF wide THEN <<"spread_too_wide">> ELSE <<>>)
                          \o (IF thin THEN <<"low_24h_volume">> ELSE <<>>)
                          \o (IF volatility = "extreme" THEN <<"extreme_volatility">>
                              ELSE IF volatility = "low" THEN <<"low_volatility">>
                              ELSE <<>>)]

analyze_conditions(c) ==
    LET regime     == detect_regime(c)
        volatility == measure_volatility(c)
        spread     == calculate_spread(c.bids, c.asks)
        wide       == FLess(Frac(MAX_SPREAD_BIPS, 1), spread)
        volume_24h == get_24h_volume(c)
        thin       == volume_24h < MIN_VOLUME_24H_MUSD
    IN  [regime       |-> regime,
         volatility   |-> volatility,
         spread_bips  |-> spread,
         volume_24h   |-> volume_24h,
         is_tradeable |-> ~wide /\ ~thin,
         warnings     |-> (IF wide THEN <<"spread_too_wide">> ELSE <<>>)
                          \o (IF thin THEN <<"low_24h_volume">> ELSE <<>>)
                          \o (IF volatility = "extreme" THEN <<"extreme_volatility">>
                              ELSE IF volatility = "low" THEN <<"low_volatility">>
                              ELSE <<>>)]

\* the gate without its test of a ranging market
GateWithoutRangingTest(signal_bias, regime, volatility) ==
    IF REQUIRE_TREND_CONFIRMATION /\ signal_bias = "bullish"
                                  /\ regime = "trending_down"
    THEN [should_trade |-> FALSE, reason |-> "bullish_against_downtrend"]
    ELSE IF REQUIRE_TREND_CONFIRMATION /\ signal_bias = "bearish"
                                       /\ regime = "trending_up"
    THEN [should_trade |-> FALSE, reason |-> "bearish_against_uptrend"]
    ELSE IF volatility = "extreme"
    THEN [should_trade |-> FALSE, reason |-> "volatility_too_high"]
    ELSE [should_trade |-> TRUE, reason |-> "favorable"]

\* (should_trade, reason)
should_trade_in_current_conditions(signal_bias, regime, volatility) ==
    IF regime = "ranging"
    THEN [should_trade |-> FALSE, reason |-> "market_is_ranging"]
    ELSE IF REQUIRE_TREND_CONFIRMATION /\ signal_bias = "bullish"
                                       /\ regime = "trending_down"
    THEN [should_trade |-> FALSE, reason |-> "bullish_against_downtrend"]
    ELSE IF REQUIRE_TREND_CONFIRMATION /\ signal_bias = "bearish"
                                       /\ regime = "trending_up"
    THEN [should_trade |-> FALSE, reason |-> "bearish_against_uptrend"]
    ELSE IF volatility = "extreme"
    THEN [should_trade |-> FALSE, reason |-> "volatility_too_high"]
    ELSE [should_trade |-> TRUE, reason |-> "favorable"]

---------------------------------------------------------------------------
(* VolumeProfile: src/Abot/volume_profile.py                               *)
(* A window is the sequence of the trades of the lookback, oldest first,   *)
(* each [price, quantity].  A profile is a function from bin price (a      *)
(* fraction) to volume; the empty profile is <<>>.                         *)

EmptyProfile == <<>>

WindowPrices(window) == {window[i].price : i \in 1 .. Len(window)}

\* int((price - min_price) / bin_size), bin_size = (max - min) / VP_PRICE_BINS
BinIndex(price, min_price, max_price) ==
    ((price - min_price) * VP_PRICE_BINS) \div (max_price - min_price)

\* min_price + bin_index * bin_size
BinPrice(price, min_price, max_price) ==
    Frac(min_price * VP_PRICE_BINS
           + BinIndex(price, min_price, max_price) * (max_price - min_price),
         VP_PRICE_BINS)

RECURSIVE SumQuantity(_, _, _, _)
SumQuantity(window, key, min_price, max_price) ==
    IF window = <<>> THEN 0
    ELSE (IF BinPrice(Head(window).price, min_price, max_price) = key
          THEN Head(window).quantity ELSE 0)
         + SumQuantity(Tail(window), key, min_price, max_price)

\* the profile build_profile leaves in self.profile, given the one it finds;
\* raised: the ZeroDivisionError of (price - min_price) / 0.0
build_profile(window, old_profile) ==
    IF window = <<>>
    THEN [profile |-> old_profile, returned_empty |-> TRUE, raised |-> FALSE]
    ELSE LET min_price == SetMin(WindowPrices(window))
             max_price == SetMax(WindowPrices(window))
         IN  IF max_price = min_price
             THEN [profile |-> old_profile, returned_empty |-> FALSE, raised |-> TRUE]
             ELSE LET keys == {BinPrice(q, min_price, max_price) :
                                   q \in WindowPrices(window)}
                  IN  [profile |-> [k \in keys |->
                                      SumQuantity(window, k, min_price, max_price)],
                       returned_empty |-> FALSE, raised |-> FALSE]

RECURSIVE SumOver(_, _)
SumOver(f, S) ==
    IF S = {} THEN 0
    ELSE LET x == CHOOSE y \in S : TRUE IN f[x] + SumOver(f, S \ {x})

\* sum(volume_by_price.values())
total_volume(prof) == SumOver(prof, DOMAIN prof)

\* max(volume_by_price, key=volume_by_price.get): the first key with the
\* greatest volume in the order of the dict, which is the order in which the
\* trades of the window opened the bins
point_of_control(window, prof) ==
    LET min_price == SetMin(WindowPrices(window))
        max_price == SetMax(WindowPrices(window))
        greatest  == SetMax({prof[k] : k \in DOMAIN prof})
        first     == SetMin({i \in 1 .. Len(window) :
                        prof[BinPrice(window[i].price, min_price, max_price)]
                            = greatest})
    IN  BinPrice(window[first].price, min_price, max_price)

\* sorted_prices[low_index - 1] and sorted_prices[high_index + 1], if any
BinsBelow(prof, k) == {j \in DOMAIN prof : FLess(j, k)}

BinsAbove(prof, k) == {j \in DOMAIN prof : FLess(k, j)}

HighestBin(S) == CHOOSE k \in S : \A j \in S : ~FLess(k, j)

LowestBin(S) == CHOOSE k \in S : \A j \in S : ~FLess(j, k)

\* one pass of the while loop: the neighbours' volumes and the branch taken
ExpansionStep(direction, low_vol, high_vol, below, above) ==
    [direction |-> direction, low_vol |-> low_vol, high_vol |-> high_vol,
     low_exhausted |-> below = {}, high_exhausted |-> above = {}]

\* the while loop of _calculate_value_area from the area low..high with
\* volume va_volume; target_volume = total * (VP_VALUE_AREA_PERCENT / 100).
\* The volumes of the model are whole numbers whose total is no multiple of
\* ten, so that no va_volume equals the target, where the rounding of the
\* floating-point product would decide.
RECURSIVE ExpandValueArea(_, _, _, _, _, _)
ExpandValueArea(prof, total, low, high, va_volume, expansion) ==
    IF ~(va_volume * 100 < total * VP_VALUE_AREA_PERCENT)
    THEN [low |-> low, high |-> high, volume |-> va_volume,
          expansion |-> expansion]
    ELSE LET below    == BinsBelow(prof, low)
             above    == BinsAbove(prof, high)
             low_vol  == IF below # {} THEN prof[HighestBin(below)] ELSE 0
             high_vol == IF above # {} THEN prof[LowestBin(above)] ELSE 0
         IN  IF low_vol > high_vol /\ below # {}
             THEN ExpandValueArea(prof, total, HighestBin(below), high,
                      va_volume + low_vol,
                      Append(expansion,
                             ExpansionStep("down", low_vol, high_vol, below, above)))
             ELSE IF above # {}
             THEN ExpandValueArea(prof, total, low, LowestBin(above),
                      va_volume + high_vol,
                      Append(expansion,
                             ExpansionStep("up", low_vol, high_vol, below, above)))
             ELSE [low |-> low, high |-> high, volume |-> va_volume,
                   expansion |-> Append(expansion,
                             ExpansionStep("break", low_vol, high_vol, below, above))]

\* _calculate_value_area on a profile that is not empty
calculate_value_area(prof, point) ==
    ExpandValueArea(prof, total_volume(prof), point, point, prof[point], <<>>)

\* the fields lines 59 and 62 leave after line 55 stored the profile built
\* from the window; kept: build_profile returned or raised before line 55
Levels(point, area) ==
    [kept |-> FALSE, poc |-> point, value_area_low |-> area.low,
     value_area_high |-> area.high, expansion |-> area.expansion]

LevelsKept ==
    [kept |-> TRUE, poc |-> Zero, value_area_low |-> Zero,
     value_area_high |-> Zero, expansion |-> <<>>]

LevelsAt(prof, point) == Levels(point, calculate_value_area(prof, point))

profile_levels(window, built) ==
    IF built.returned_empty \/ built.raised THEN LevelsKept
    ELSE LevelsAt(built.profile, point_of_control(window, built.profile))

\* the significant nodes below and above the price (the code keeps the three
\* nearest of each, nearest first)
get_support_resistance(prof, price) ==
    IF DOMAIN prof = {} THEN [support |-> {}, resistance |-> {}]
    ELSE LET total == SumOver(prof, DOMAIN prof)
             n     == Cardinality(DOMAIN prof)
             \* volume >= 1.5 * total / n
             significant_nodes == {k \in DOMAIN prof : prof[k] * 2 * n >= 3 * total}
         IN  [support    |-> {k \in significant_nodes : FLess(k, Frac(price, 1))},
              resistance |-> {k \in significant_nodes : FLess(Frac(price, 1), k)}]

\* sorted(support, reverse=True)[0] and sorted(resistance)[0]
Nearest(levels, price) ==
    CHOOSE k \in levels : \A j \in levels :
        Abs(price * k.d - k.n) * j.d <= Abs(price * j.d - j.n) * k.d

\* abs(current_price - level) / current_price < 0.005
AtLevel(price, level) ==
    Abs(price * level.d - level.n) * 1000 < 5 * price * level.d

---------------------------------------------------------------------------
(* DeltaDivergenceDetector.calculate_cumulative_delta:                     *)
(* src/Abot/delta_divergence.py.  A footprint is the sequence of the delta *)
(* column of the frame build_footprint returns; the empty frame is <<>>.   *)
(* A point of the history is [delta, price]; its timestamp is never read.  *)

DELTA_HISTORY_MAXLEN == 100

\* deque(maxlen=DELTA_HISTORY_MAXLEN).append
DequeAppend(history, point) ==
    IF Len(history) >= DELTA_HISTORY_MAXLEN THEN Append(Tail(history), point)
    ELSE Append(history, point)

\* footprint_df['delta'].sum()
RECURSIVE SumDelta(_)
SumDelta(footprint_df) ==
    IF footprint_df = <<>> THEN 0
    ELSE Head(footprint_df) + SumDelta(Tail(footprint_df))

calculate_cumulative_delta(footprint_df, price, history) ==
    IF footprint_df = <<>>
    THEN [value |-> 0, delta_history |-> history]
    ELSE [value |-> SumDelta(footprint_df),
          delta_history |-> DequeAppend(history,
                                [delta |-> SumDelta(footprint_df), price |-> price])]

---------------------------------------------------------------------------
(* DeltaDivergenceDetector.detect_divergence: src/Abot/delta_divergence.py *)
(* The history is a sequence of [delta, price] points, oldest first.       *)

FSub(a, b) == Frac(a.n * b.d - b.n * a.d, a.d * b.d)

FAbs(a) == [n |-> Abs(a.n), d |-> a.d]

LastN(seq, n) == SubSeq(seq, Len(seq) - n + 1, Len(seq))

detect_divergence(history) ==
    IF Len(history) < DELTA_DIVERGENCE_PERIODS
    THEN [type |-> "none", strength |-> 0, raised |-> FALSE]
    ELSE LET recent_data == LastN(history, DELTA_DIVERGENCE_PERIODS)
             first == recent_data[1]
             last  == recent_data[Len(recent_data)]
         IN  IF first.price = 0
             THEN [type |-> "none", strength |-> 0, raised |-> TRUE]
             ELSE LET price_change == Frac(last.price - first.price, first.price)
                      delta_change == Frac(last.delta - first.delta, Abs(first.delta) + 1)
                      divergence_strength == FAbs(FSub(price_change, delta_change))
                      strong   == FLess(Frac(DELTA_DIVERGENCE_THRESHOLD_X10, 10),
                                        divergence_strength)
                      \* min(100, int(divergence_strength * 200))
                      strength == Min(100, (divergence_strength.n * 200)
                                             \div divergence_strength.d)
                 IN  IF FLess(price_change, Frac(-1, 100))
                          /\ FLess(Frac(1, 100), delta_change) /\ strong
                     THEN [type |-> "bullish", strength |-> strength, raised |-> FALSE]
                     ELSE IF FLess(Frac(1, 100), price_change)
                               /\ FLess(delta_change, Frac(-1, 100)) /\ strong
                     THEN [type |-> "bearish", strength |-> strength, raised |-> FALSE]
                     ELSE [type |-> "none", strength |-> 0, raised |-> FALSE]

---------------------------------------------------------------------------
(* EnhancedOrderFlowStrategy: src/Abot/enhanced_strategy.py                *)
(* A reason is a tag with the detail it carries (the condition warnings).  *)

Reason(tag) == [tag |-> tag, detail |-> <<>>]

\* m: the 5-minute closes the collector holds (k5 of them), the EMAs computed
\* from them and the last close
AlignmentReplacesStrength(m) ==
    IF ~EnoughCloses(m.k5, EMA_TREND)
    THEN [signal |-> "none", strength |-> 0, description |-> "none"]
    ELSE LET crossover == detect_ema_crossover(m.ema_fast, m.ema_medium,
                                               m.prev_fast, m.prev_medium)
             crossed == IF crossover = "bullish"
                        THEN [signal |-> "bullish",
                              strength |-> 25 + (IF m.close > m.ema_trend THEN 10 ELSE 0),
                              description |-> "bullish_crossover"]
                        ELSE IF crossover = "bearish"
                        THEN [signal |-> "bearish",
                              strength |-> 25 + (IF m.close < m.ema_trend THEN 10 ELSE 0),
                              description |-> "bearish_crossover"]
                        ELSE [signal |-> "none", strength |-> 0, description |-> "none"]
         IN  IF m.ema_fast > m.ema_medium /\ m.ema_medium > m.ema_slow
                  /\ m.ema_slow > m.ema_trend
             THEN [signal |-> "bullish", strength |-> 15,
                   description |-> "aligned_bullish"]
             ELSE IF m.ema_fast < m.ema_medium /\ m.ema_medium < m.ema_slow
                       /\ m.ema_slow < m.ema_trend
             THEN [signal |-> "bearish", strength |-> 15,
                   description |-> "aligned_bearish"]
             ELSE crossed

analyze_moving_averages(m) ==
    IF ~EnoughCloses(m.k5, EMA_TREND)
    THEN [signal |-> "none", strength |-> 0, description |-> "none"]
    ELSE LET crossover == detect_ema_crossover(m.ema_fast, m.ema_medium,
                                               m.prev_fast, m.prev_medium)
             crossed == IF crossover = "bullish"
                        THEN [signal |-> "bullish",
                              strength |-> 25 + (IF m.close > m.ema_trend THEN 10 ELSE 0),
                              description |-> "bullish_crossover"]
                        ELSE IF crossover = "bearish"
                        THEN [signal |-> "bearish",
                              strength |-> 25 + (IF m.close < m.ema_trend THEN 10 ELSE 0),
                              description |-> "bearish_crossover"]
                        ELSE [signal |-> "none", strength |-> 0, description |-> "none"]
         IN  IF m.ema_fast > m.ema_medium /\ m.ema_medium > m.ema_slow
                  /\ m.ema_slow > m.ema_trend
             THEN [signal |-> "bullish", strength |-> crossed.strength + 15,
                   description |-> "aligned_bullish"]
             ELSE IF m.ema_fast < m.ema_medium /\ m.ema_medium < m.ema_slow
                       /\ m.ema_slow < m.ema_trend
             THEN [signal |-> "bearish", strength |-> crossed.strength + 15,
                   description |-> "aligned_bearish"]
             ELSE crossed

\* the loop over the walls; absorptions[i] is what detect_absorption answers
\* for wall i
RECURSIVE AbsorbWalls(_, _)
AbsorbWalls(absorptions, orderflow) ==
    IF absorptions = <<>> THEN orderflow
    ELSE AbsorbWalls(Tail(absorptions),
             IF Head(absorptions).detected
             THEN [bias |-> Head(absorptions).direction,
                   strength |-> orderflow.strength + 30,
                   reasons |-> Append(orderflow.reasons, Reason("absorption"))]
             ELSE orderflow)

\* o: what the heat map, footprint and institutional collaborators answer:
\* one absorption result per detected wall, the buy and sell volume of the
\* recent large trades (has_recent false when there are none), and the
\* footprint totals
analyze_orderflow(o) ==
    LET start == [bias |-> "neutral", strength |-> 0,
                  reasons |-> IF o.absorptions # <<>>
                              THEN <<Reason("walls_found")>> ELSE <<>>]
        walled == AbsorbWalls(o.absorptions, start)
        inst == IF o.has_recent /\ o.buy_vol > o.sell_vol * 2
                THEN [bias |-> "bullish", strength |-> walled.strength + 20,
                      reasons |-> Append(walled.reasons, Reason("institutional_buying"))]
                ELSE IF o.has_recent /\ o.sell_vol > o.buy_vol * 2
                THEN [bias |-> "bearish", strength |-> walled.strength + 20,
                      reasons |-> Append(walled.reasons, Reason("institutional_selling"))]
                ELSE walled
        total == o.total_buy + o.total_sell
    IN  \* imbalance > 0.70; a zero total gives nan, which compares false
        IF ~o.footprint_empty /\ total > 0
             /\ o.total_buy * 100 > IMBALANCE_THRESHOLD_X100 * total
        THEN [bias |-> IF inst.bias = "neutral" THEN "bullish" ELSE inst.bias,
              strength |-> inst.strength + 20,
              reasons |-> Append(inst.reasons, Reason("buy_imbalance"))]
        \* imbalance < 1 - 0.70, which in binary floating point is just above 0.3
        ELSE IF ~o.footprint_empty /\ total > 0
                  /\ o.total_buy * 100 <= (100 - IMBALANCE_THRESHOLD_X100) * total
        THEN [bias |-> IF inst.bias = "neutral" THEN "bearish" ELSE inst.bias,
              strength |-> inst.strength + 20,
              reasons |-> Append(inst.reasons, Reason("sell_imbalance"))]
        ELSE inst

\* the mutation of the bias tests that lets a later direction replace the bias
LastDirectionWins(sig, bias) == IF bias = "neutral" THEN sig.bias ELSE bias

\* signal['bias'] is set only while it is still neutral
TakeBias(sig, bias) == IF sig.bias = "neutral" THEN bias ELSE sig.bias

NewSignal ==
    [bias |-> "neutral", strength |-> 0, reasons |-> <<>>, action |-> "wait",
     entry_price |-> 0, stop_loss |-> 0, take_profit |-> 0]

\* the mutation of line 49 that never ends the analysis at step 1
NeverShortCircuits(conditions) == FALSE

\* line 49: the conditions that end the analysis at step 1
ShortCircuits(conditions) == ~conditions.is_tradeable

\* lines 50-51
NotTradeableSignal(conditions) ==
    [NewSignal EXCEPT !.reasons =
        <<[tag |-> "not_tradeable", detail |-> conditions.warnings]>>]

\* step 2
ApplyMovingAverages(sig, ma_signal) ==
    IF ma_signal.signal # "none"
    THEN [sig EXCEPT !.strength = @ + ma_signal.strength,
                     !.reasons = Append(@, Reason(ma_signal.description)),
                     !.bias = TakeBias(sig, ma_signal.signal)]
    ELSE sig

\* step 3, after the profile is rebuilt: the price is within 0.5 % of the
\* nearest significant node below it / above it
AtSupport(prof, price) ==
    LET support == get_support_resistance(prof, price).support
    IN  support # {} /\ AtLevel(price, Nearest(support, price))

AtResistance(prof, price) ==
    LET resistance == get_support_resistance(prof, price).resistance
    IN  resistance # {} /\ AtLevel(price, Nearest(resistance, price))

ApplySupport(sig, at_support) ==
    IF at_support
    THEN [sig EXCEPT !.strength = @ + 15,
                     !.reasons = Append(@, Reason("at_support")),
                     !.bias = TakeBias(sig, "bullish")]
    ELSE sig

ApplyResistance(sig, at_resistance) ==
    IF at_resistance
    THEN [sig EXCEPT !.strength = @ + 15,
                     !.reasons = Append(@, Reason("at_resistance")),
                     !.bias = TakeBias(sig, "bearish")]
    ELSE sig

ApplyVolumeProfile(sig, prof, price) ==
    ApplyResistance(ApplySupport(sig, AtSupport(prof, price)),
                    AtResistance(prof, price))

\* step 4
ApplyDivergence(sig, divergence) ==
    IF divergence.type # "none"
    THEN [sig EXCEPT !.strength = @ + (divergence.strength \div 2),
                     !.reasons = Append(@, Reason("divergence")),
                     !.bias = TakeBias(sig, divergence.type)]
    ELSE sig

\* the mutation of step 5 that adds the order-flow strength without offering
\* its direction to a neutral signal
OrderflowStrengthOnly(sig, orderflow_signal) ==
    [sig EXCEPT !.strength = @ + orderflow_signal.strength,
                !.reasons = @ \o orderflow_signal.reasons]

\* step 5
ApplyOrderflow(sig, orderflow_signal) ==
    [sig EXCEPT !.strength = @ + orderflow_signal.strength,
                !.reasons = @ \o orderflow_signal.reasons,
                !.bias = TakeBias(sig, orderflow_signal.bias)]

\* the mutation of step 6 that leaves out the market condition gate
DecisionWithoutConditionGate(sig, price, regime, volatility) ==
    IF sig.strength >= MIN_SIGNAL_STRENGTH
    THEN LET action == IF sig.bias = "bullish" THEN "buy"
                       ELSE IF sig.bias = "bearish" THEN "sell" ELSE "wait"
         IN  [sig EXCEPT !.action = action, !.entry_price = price]
    ELSE sig

\* step 6
final_decision(sig, price, regime, volatility) ==
    IF sig.strength >= MIN_SIGNAL_STRENGTH
    THEN LET gate == should_trade_in_current_conditions(sig.bias, regime, volatility)
             action == IF sig.bias = "bullish" THEN "buy"
                       ELSE IF sig.bias = "bearish" THEN "sell" ELSE "wait"
         IN  IF gate.should_trade
             THEN [sig EXCEPT
                     !.action = action,
                     !.entry_price = price,
                     !.stop_loss = IF action = "buy"
                                   THEN (price * (100 - STOP_LOSS_PERCENT)) \div 100
                                   ELSE (price * (100 + STOP_LOSS_PERCENT)) \div 100,
                     !.take_profit = IF action = "buy"
                                   THEN (price * (100 + TAKE_PROFIT_PERCENT)) \div 100
                                   ELSE (price * (100 - TAKE_PROFIT_PERCENT)) \div 100]
             ELSE [sig EXCEPT !.reasons = Append(@, Reason(gate.reason))]
    ELSE sig

\* what a contributor said (fired: it added its reason and strength;
\* direction: the bias it offers) and the signal's bias and strength after it
Contribution(contributor, fired, direction, sig) ==
    [contributor |-> contributor, fired |-> fired, direction |-> direction,
     bias |-> sig.bias, strength |-> sig.strength]

\* the contributors of steps 2 to 5 in the order the code runs them
Fusion(ma_signal, at_support, at_resistance, divergence, orderflow_signal) ==
    LET s2  == ApplyMovingAverages(NewSignal, ma_signal)
        s3a == ApplySupport(s2, at_support)
        s3  == ApplyResistance(s3a, at_resistance)
        s4  == ApplyDivergence(s3, divergence)
        s5  == ApplyOrderflow(s4, orderflow_signal)
    IN  << Contribution("moving_averages", ma_signal.signal # "none",
                        ma_signal.signal, s2),
           Contribution("support", at_support, "bullish", s3a),
           Contribution("resistance", at_resistance, "bearish", s3),
           Contribution("divergence", divergence.type # "none",
                        divergence.type, s4),
           Contribution("orderflow", orderflow_signal.bias # "neutral",
                        orderflow_signal.bias, s5) >>

\* What one call leaves behind: the signal it returns (or raised), the steps
\* it ran, the conditions of step 1, the profile build_profile left and what
\* each contributor did to the signal.
analyze_market(c, m, window, o, price, old_profile, history) ==
    LET conditions == analyze_conditions(c)
        s2 == ApplyMovingAverages(NewSignal, analyze_moving_averages(m))
        vp == build_profile(window, old_profile)
        s3 == ApplyVolumeProfile(s2, vp.profile, price)
        divergence == detect_divergence(history)
        s4 == ApplyDivergence(s3, divergence)
        s5 == ApplyOrderflow(s4, analyze_orderflow(o))
        base == [conditions |-> conditions, raised |-> FALSE,
                 profile |-> old_profile, levels |-> LevelsKept,
                 fusion |-> <<>>,
                 signal |-> NewSignal, steps |-> <<"market_conditions">>]
    IN  IF ShortCircuits(conditions)
        THEN [base EXCEPT !.signal = NotTradeableSignal(conditions)]
        ELSE IF vp.raised
        THEN [base EXCEPT !.raised = TRUE,
                !.steps = <<"market_conditions", "moving_averages", "volume_profile">>]
        ELSE IF divergence.raised
        THEN [base EXCEPT !.raised = TRUE, !.profile = vp.profile,
                !.levels = profile_levels(window, vp),
                !.steps = <<"market_conditions", "moving_averages", "volume_profile",
                            "delta_divergence">>]
        ELSE [base EXCEPT
                !.profile = vp.profile,
                !.levels = profile_levels(window, vp),
                !.fusion = Fusion(analyze_moving_averages(m),
                                  AtSupport(vp.profile, price),
                                  AtResistance(vp.profile, price),
                                  divergence, analyze_orderflow(o)),
                !.signal = final_decision(s5, price, conditions.regime,
                                          conditions.volatility),
                !.steps = <<"market_conditions", "moving_averages", "volume_profile",
                            "delta_divergence", "orderflow", "final_decision">>]

---------------------------------------------------------------------------
(* Account state as the exchange reports it *)

PositionSides == {"BOTH", "LONG", "SHORT"}

\* positionAmt: a one-way position (BOTH) is long or short, a hedge-mode
\* position has the sign of its side
Amounts(side) == CASE side = "LONG"  -> {1}
                   [] side = "SHORT" -> {-1}
                   [] OTHER          -> {-1, 1}

Profits == {0, 5}

Position(side, amt, pnl) ==
    [positionSide |-> side, positionAmt |-> amt, unRealizedProfit |-> pnl]

PositionsOf(side) ==
    {<<>>} \cup {<<Position(side, a, p)>> : a \in Amounts(side), p \in Profits}

\* futures_position_information, filtered to positionAmt # 0: at most one
\* position per position side of the symbol
PositionLists ==
    {b \o l \o s : b \in PositionsOf("BOTH"), l \in PositionsOf("LONG"),
                   s \in PositionsOf("SHORT")}

\* a position id without an entry in active_stops
NoStop == -1

NoSignal == [action |-> "none"]

NoCall == [fn |-> "none"]

---------------------------------------------------------------------------
(* EnhancedDataCollector.update_account_info: src/Abot/data_collector.py   *)

AccountReport(balance, positions) == [balance |-> balance, positions |-> positions]

\* outcome: which of the two exchange calls fails, if any; the exception is
\* caught inside, after the balance was stored when the second call fails
SyncOutcomes == {"account_fails", "positions_fail", "ok"}

update_account_info(outcome, report, balance, positions) ==
    CASE outcome = "account_fails" ->
            [account_balance |-> balance, open_positions |-> positions]
      [] outcome = "positions_fail" ->
            [account_balance |-> report.balance, open_positions |-> positions]
      [] OTHER ->
            [account_balance |-> report.balance, open_positions |-> report.positions]

---------------------------------------------------------------------------
(* RiskManager.monitor_positions: src/Abot/risk_manager.py                 *)
(* The position id is symbol + '_' + positionSide; the symbol is fixed, so *)
(* the id is the position side.  Positions carry a positive entry price.   *)

\* the mutation of _update_trailing_stop that trails a position at a loss too
TrailWithoutProfitGuard(position, price, unrealized_pnl, stops) ==
    LET position_id == position.positionSide IN
    IF position.positionAmt > 0
    THEN [stops EXCEPT ![position_id] =
             (price * (1000 - TRAILING_STOP_PERCENT_X10)) \div 1000]
    ELSE [stops EXCEPT ![position_id] =
             (price * (1000 + TRAILING_STOP_PERCENT_X10)) \div 1000]

update_trailing_stop(position, price, unrealized_pnl, stops) ==
    LET position_id == position.positionSide
        is_long == position.positionAmt > 0
    IN  IF unrealized_pnl <= 0 THEN stops
        ELSE IF is_long
        THEN LET new_stop == (price * (1000 - TRAILING_STOP_PERCENT_X10)) \div 1000 IN
             IF stops[position_id] = NoStop \/ new_stop > stops[position_id]
             THEN [stops EXCEPT ![position_id] = new_stop] ELSE stops
        ELSE LET new_stop == (price * (1000 + TRAILING_STOP_PERCENT_X10)) \div 1000 IN
             IF stops[position_id] = NoStop \/ new_stop < stops[position_id]
             THEN [stops EXCEPT ![position_id] = new_stop] ELSE stops

\* the loop over data_collector.open_positions
RECURSIVE monitor_positions(_, _, _)
monitor_positions(positions, price, stops) ==
    IF positions = <<>> THEN stops
    ELSE monitor_positions(Tail(positions), price,
             IF TRAILING_STOP_ENABLED
             THEN update_trailing_stop(Head(positions), price,
                                       Head(positions).unRealizedProfit, stops)
             ELSE stops)

---------------------------------------------------------------------------
(* OrderExecutor: src/Abot/order_executor.py *)

Gate(name, outcome) == [gate |-> name, outcome |-> outcome]

\* the checks of execute_signal in the order of the code; the position size
\* is computed between the daily limits and the risk limits
GateOrder ==
    <<"enable_trading", "emergency_stop", "daily_limits", "position_size",
      "risk_limits">>

\* the first n-1 checks passed and check n ended as `outcome`
GatesUpTo(n, outcome) ==
    [i \in 1 .. n |-> Gate(GateOrder[i], IF i < n THEN "pass" ELSE outcome)]

NotSized == SizeResult(Zero, Zero, Zero, "not_computed")

\* what a call leaves behind after n checks, the last one ending as outcome
Decision(n, outcome, daily, size) ==
    [gates |-> GatesUpTo(n, outcome), daily |-> daily, size |-> size,
     place |-> n = 5 /\ outcome = "pass", raised |-> outcome = "raised"]

\* the mutation of the checks that leaves out the emergency stop
DecideWithoutEmergencyGate(enable, emergency, untouched, daily, size, risk) ==
    IF ~enable THEN Decision(1, "fail", untouched, NotSized)
    ELSE IF daily.value = "ZeroDivisionError" THEN Decision(3, "raised", daily, NotSized)
    ELSE IF daily.value = "blocked" THEN Decision(3, "fail", daily, NotSized)
    ELSE IF size.raised THEN Decision(4, "raised", daily, NotSized)
    ELSE IF risk.raised THEN Decision(5, "raised", daily, size)
    ELSE IF ~risk.is_valid THEN Decision(5, "fail", daily, size)
    ELSE Decision(5, "pass", daily, size)

\* lines 25-53: the checks in their order, given what each of them answers
\* when it is asked; untouched: the daily fields when check_daily_limits is
\* not reached
Decide(enable, emergency, untouched, daily, size, risk) ==
    IF ~enable THEN Decision(1, "fail", untouched, NotSized)
    ELSE IF emergency THEN Decision(2, "fail", untouched, NotSized)
    ELSE IF daily.value = "ZeroDivisionError" THEN Decision(3, "raised", daily, NotSized)
    ELSE IF daily.value = "blocked" THEN Decision(3, "fail", daily, NotSized)
    ELSE IF size.raised THEN Decision(4, "raised", daily, NotSized)
    ELSE IF risk.raised THEN Decision(5, "raised", daily, size)
    ELSE IF ~risk.is_valid THEN Decision(5, "fail", daily, size)
    ELSE Decision(5, "pass", daily, size)

\* check_risk_limits reads the daily PnL that check_daily_limits left
RiskAfterDaily(daily, size, balance, n_open) ==
    check_risk_limits(size, balance, daily.daily_pnl, n_open)

SizedDecision(enable, emergency, untouched, daily, size, balance, n_open) ==
    Decide(enable, emergency, untouched, daily, size,
           RiskAfterDaily(daily, size, balance, n_open))

\* what the call at time t decides: the checks it made, the fields
\* check_daily_limits leaves behind, the position size, whether it goes on to
\* _place_market_order, and whether an exception leaves it
execute_signal(sig, enable, emergency, t, reset_time, pnl, trades, balance, n_open, method) ==
    SizedDecision(enable, emergency,
        [reset |-> FALSE, daily_pnl |-> pnl, daily_trades |-> trades,
         daily_reset_time |-> reset_time, value |-> "not_called"],
        check_daily_limits(t, reset_time, pnl, trades, balance),
        calculate_position_size(balance, sig.entry_price, sig.stop_loss,
                                sig.strength, method),
        balance, n_open)

\* round(quantity_btc, 6)
Round6(q) == Frac((q.n * 2000000 + q.d) \div (2 * q.d), 1000000)

Order(type, side, quantity, stop_price, accepted) ==
    [type |-> type, side |-> side, quantity |-> quantity,
     stop_price |-> stop_price, accepted |-> accepted]

\* the entry stored in self.orders under the entry order's id: the ids the
\* exchange gives are all different, so the record is kept as the sequence of
\* its entries in the order they were stored
OrderRecord(placed_orders, sig) ==
    [entry_order |-> placed_orders[1], stop_loss |-> placed_orders[2],
     take_profit |-> placed_orders[3], signal |-> sig]

\* the exchange call of _place_market_order that fails, if any
FailPoints == {"leverage", "entry", "stop_loss", "take_profit", "none"}

\* _place_market_order storing the execution although the take-profit order
\* was refused
PlaceRecordingWithoutTakeProfit(sig, position_size, fail_at) ==
    LET side     == IF sig.action = "buy" THEN "BUY" ELSE "SELL"
        sl_side  == IF side = "BUY" THEN "SELL" ELSE "BUY"
        quantity == Round6(position_size.quantity_btc)
        entry(ok) == Order("MARKET", side, quantity, 0, ok)
        sl(ok)    == Order("STOP_MARKET", sl_side, quantity, sig.stop_loss, ok)
        tp(ok)    == Order("TAKE_PROFIT_MARKET", sl_side, quantity, sig.take_profit, ok)
    IN  CASE fail_at = "leverage" -> [orders |-> <<>>, completed |-> FALSE]
          [] fail_at = "entry" -> [orders |-> <<entry(FALSE)>>, completed |-> FALSE]
          [] fail_at = "stop_loss" ->
                [orders |-> <<entry(TRUE), sl(FALSE)>>, completed |-> FALSE]
          [] fail_at = "take_profit" ->
                [orders |-> <<entry(TRUE), sl(TRUE), tp(FALSE)>>, completed |-> TRUE]
          [] OTHER ->
                [orders |-> <<entry(TRUE), sl(TRUE), tp(TRUE)>>, completed |-> TRUE]

\* the orders sent to the exchange, the last one refused when a call fails;
\* completed: the three orders stand and update_account_info is called.
\* The stop prices are whole numbers, which round(x, 2) leaves as they are.
place_market_order(sig, position_size, fail_at) ==
    LET side     == IF sig.action = "buy" THEN "BUY" ELSE "SELL"
        sl_side  == IF side = "BUY" THEN "SELL" ELSE "BUY"
        quantity == Round6(position_size.quantity_btc)
        entry(ok) == Order("MARKET", side, quantity, 0, ok)
        sl(ok)    == Order("STOP_MARKET", sl_side, quantity, sig.stop_loss, ok)
        tp(ok)    == Order("TAKE_PROFIT_MARKET", sl_side, quantity, sig.take_profit, ok)
    IN  CASE fail_at = "leverage" -> [orders |-> <<>>, completed |-> FALSE]
          [] fail_at = "entry" -> [orders |-> <<entry(FALSE)>>, completed |-> FALSE]
          [] fail_at = "stop_loss" ->
                [orders |-> <<entry(TRUE), sl(FALSE)>>, completed |-> FALSE]
          [] fail_at = "take_profit" ->
                [orders |-> <<entry(TRUE), sl(TRUE), tp(FALSE)>>, completed |-> FALSE]
          [] OTHER ->
                [orders |-> <<entry(TRUE), sl(TRUE), tp(TRUE)>>, completed |-> TRUE]

---------------------------------------------------------------------------
(* The state after construction (the __init__ methods) *)

ConstructedBot ==
    /\ is_running = FALSE
    /\ pc = "connect"
    /\ analysis_counter = 0
    /\ signal = NoSignal
    /\ monitored = FALSE
    /\ error_logged = FALSE

ConstructedCollector ==
    /\ current_price = 0
    /\ account_balance = 0
    /\ open_positions = <<>>
    /\ daily_pnl = 0
    /\ daily_trades = 0

ConstructedAnalyzers ==
    /\ current_regime = "unknown"
    /\ volatility_state = "normal"
    /\ profile = EmptyProfile
    /\ poc = Zero
    /\ value_area_low = Zero
    /\ value_area_high = Zero
    /\ delta_history = <<>>
    /\ steps = <<>>
    /\ gates = <<>>
    /\ submitted = <<>>

\* RiskManager.__init__ at a time of day 0
ConstructedRiskManager ==
    /\ now \in 0 .. (TicksPerDay - 1)
    /\ active_stops = [s \in PositionSides |-> NoStop]
    /\ daily_reset_time = ReplaceHMS0(now)

\* self.orders = {}
ConstructedExecutor ==
    orders = <<>>

---------------------------------------------------------------------------
(* What the streams and the collaborators hand to one analysis.            *)

Snapshot(k15, change_bp, ema_20, ema_50, k1, volatility_x10, bids, asks, ticker_ok, volume_musd) ==
    [k15 |-> k15, change_bp |-> change_bp, ema_20 |-> ema_20, ema_50 |-> ema_50,
     k1 |-> k1, volatility_x10 |-> volatility_x10, bids |-> bids, asks |-> asks,
     ticker_ok |-> ticker_ok, volume_musd |-> volume_musd]

\* a liquid book with a 40 bp spread: an uptrend, a range, and extreme
\* volatility before the regime is known ...
TradeableSnapshots ==
    { Snapshot(50, 300, 2, 1, 60, 20, {10000, 9990}, {10040, 10050}, TRUE, 2000),
      Snapshot(50, 10, 2, 1, 60, 20, {10000}, {10040}, TRUE, 2000),
      Snapshot(49, -300, 1, 2, 60, 120, {10000}, {10040}, TRUE, 2000) }

\* ... and a wide spread in a quiet downtrend, a one-sided book with a failed
\* ticker call
UntradeableSnapshots ==
    { Snapshot(50, -300, 1, 2, 60, 3, {10000}, {10100}, TRUE, 2000),
      Snapshot(50, 100, 2, 1, 59, 20, {}, {10040}, FALSE, 2000) }

Snapshots == TradeableSnapshots \cup UntradeableSnapshots

MAInput(k5, fast, medium, slow, trend, prev_fast, prev_medium, close) ==
    [k5 |-> k5, ema_fast |-> fast, ema_medium |-> medium, ema_slow |-> slow,
     ema_trend |-> trend, prev_fast |-> prev_fast, prev_medium |-> prev_medium,
     close |-> close]

\* too few candles; a bullish crossover above aligned EMAs; aligned bearish
MAInputs ==
    { MAInput(199, 4, 3, 2, 1, 3, 3, 5),
      MAInput(200, 4, 3, 2, 1, 3, 3, 5),
      MAInput(200, 1, 2, 3, 4, 1, 2, 1) }

Trade(price, quantity) == [price |-> price, quantity |-> quantity]

\* the trades of the lookback window; the last one set current_price
Windows(price) ==
    IF price = 0 THEN {<<>>}
    ELSE { <<>>,
           <<Trade(price, 1)>>,
           <<Trade(price - 4, 9), Trade(price + 196, 1), Trade(price, 1)>> }

Absorption(detected, direction) == [detected |-> detected, direction |-> direction]

OrderFlow(absorptions, has_recent, buy_vol, sell_vol, footprint_empty, total_buy, total_sell) ==
    [absorptions |-> absorptions, has_recent |-> has_recent, buy_vol |-> buy_vol,
     sell_vol |-> sell_vol, footprint_empty |-> footprint_empty,
     total_buy |-> total_buy, total_sell |-> total_sell]

\* a quiet book; a wall that absorbs buying, with large sellers and sell
\* imbalance; two absorbing walls with large buyers and an empty footprint sum
OrderFlows ==
    { OrderFlow(<<>>, FALSE, 0, 0, TRUE, 0, 0),
      OrderFlow(<<Absorption(FALSE, "none"), Absorption(TRUE, "bearish")>>,
                TRUE, 10, 30, FALSE, 2, 8),
      OrderFlow(<<Absorption(TRUE, "bullish"), Absorption(TRUE, "bullish")>>,
                TRUE, 30, 10, FALSE, 0, 0) }

\* the windows of the fusion: no trade, a heavy node just below the price,
\* one just above it, and one on each side
FusionWindows(price) ==
    IF price = 0 THEN {<<>>}
    ELSE { <<>>,
           <<Trade(price - 4, 9), Trade(price + 196, 1), Trade(price, 1)>>,
           <<Trade(price + 4, 9), Trade(price - 196, 1), Trade(price, 1)>>,
           <<Trade(price - 4, 9), Trade(price + 4, 9), Trade(price + 2, 1),
             Trade(price, 1)>> }

\* the points of DELTA_DIVERGENCE_PERIODS calls of calculate_cumulative_delta
\* during which the price rose from 1000 to 1200 and the delta fell from 1
\* to 0
FallingDeltaHistory ==
    [i \in 1 .. DELTA_DIVERGENCE_PERIODS |->
        IF i = 1 THEN [delta |-> 1, price |-> 1000]
        ELSE [delta |-> 0, price |-> 1200]]

---------------------------------------------------------------------------
(* SpecStrategy: the trade stream and analyze_market, called directly.     *)

InitStrategy ==
    /\ ENABLE_TRADING = TRUE
    /\ EMERGENCY_STOP = FALSE
    /\ POSITION_SIZING_METHOD = "fixed_percent"
    /\ ConstructedBot
    /\ ConstructedCollector
    /\ ConstructedAnalyzers
    /\ ConstructedRiskManager
    /\ ConstructedExecutor
    /\ now = 0
    /\ last_call = NoCall

\* stream_trades: a trade arrives
StreamTrade ==
    /\ \E price \in Prices : current_price' = price
    /\ UNCHANGED <<cfgVars, botVars, acctVars, riskVars, now, condVars, callVars,
                   last_call>>

\* the fields of the VolumeProfile after a build_profile call
ProfileEffect(prof, levels) ==
    /\ profile' = prof
    /\ poc' = IF levels.kept THEN poc ELSE levels.poc
    /\ value_area_low' = IF levels.kept THEN value_area_low
                         ELSE levels.value_area_low
    /\ value_area_high' = IF levels.kept THEN value_area_high
                          ELSE levels.value_area_high

\* what a call that ended as r leaves in the strategy, the analyzers it
\* drives and the record of the call
AnalyzeMarketEffect(r) ==
    /\ current_regime' = r.conditions.regime
    /\ volatility_state' = r.conditions.volatility
    /\ ProfileEffect(r.profile, r.levels)
    /\ signal' = IF r.raised THEN NoSignal ELSE r.signal
    /\ steps' = r.steps
    /\ last_call' = [fn |-> "analyze_market", conditions |-> r.conditions,
                     raised |-> r.raised, price |-> current_price,
                     profile_before |-> profile, fusion |-> r.fusion]
    /\ UNCHANGED <<cfgVars, is_running, pc, analysis_counter, monitored,
                   error_logged, current_price, acctVars, riskVars, now,
                   delta_history, gates, submitted>>

CallAnalyzeMarket ==
    \E c \in Snapshots, m \in MAInputs, w \in Windows(current_price),
       o \in OrderFlows :
        AnalyzeMarketEffect(analyze_market(c, m, w, o, current_price, profile,
                                           delta_history))

NextStrategy ==
    \/ StreamTrade
    \/ CallAnalyzeMarket

SpecStrategy == InitStrategy /\ [][NextStrategy]_vars

---------------------------------------------------------------------------
(* SpecFusion: analyze_market called directly in a tradeable market whose  *)
(* regime is not yet known, on inputs that make every contributor of steps *)
(* 2 to 5 fire, alone and against each other.                              *)

FusionSnapshots ==
    {Snapshot(49, 300, 2, 1, 60, 20, {10000}, {10040}, TRUE, 2000)}

\* calculate_cumulative_delta, called until the history has the points of a
\* divergence check
FillDeltaHistory ==
    /\ delta_history = <<>>
    /\ delta_history' = FallingDeltaHistory
    /\ UNCHANGED <<cfgVars, botVars, current_price, acctVars, riskVars, now,
                   current_regime, volatility_state, vpVars, callVars,
                   last_call>>

CallAnalyzeMarketFusion ==
    \E c \in FusionSnapshots, m \in MAInputs, w \in FusionWindows(current_price),
       o \in OrderFlows :
        AnalyzeMarketEffect(analyze_market(c, m, w, o, current_price, profile,
                                           delta_history))

NextFusion ==
    \/ StreamTrade
    \/ FillDeltaHistory
    \/ CallAnalyzeMarketFusion

SpecFusion == InitStrategy /\ [][NextFusion]_vars

---------------------------------------------------------------------------
(* SpecProfile: build_profile called directly on every window of up to     *)
(* MaxWindow trades at three neighbouring prices.                          *)

ProfileTrades == {Trade(p, q) : p \in {1000, 1001, 1002}, q \in {1, 2}}

ProfileWindows == UNION {[1 .. n -> ProfileTrades] : n \in 0 .. MaxWindow}

\* the dict build_profile returns
ProfileResult(prof, levels) ==
    [profile |-> prof, poc |-> levels.poc,
     value_area_high |-> levels.value_area_high,
     value_area_low |-> levels.value_area_low,
     total_volume |-> total_volume(prof)]

BuiltEffect(window, built, levels) ==
    /\ ProfileEffect(built.profile, levels)
    /\ last_call' = [fn |-> "build_profile", window |-> window,
                     raised |-> built.raised,
                     returned_empty |-> built.returned_empty,
                     expansion |-> levels.expansion,
                     value |-> IF levels.kept THEN <<>>
                               ELSE ProfileResult(built.profile, levels)]
    /\ UNCHANGED <<cfgVars, botVars, current_price, acctVars, riskVars, now,
                   current_regime, volatility_state, delta_history, callVars>>

BuildProfileEffect(window, built) ==
    BuiltEffect(window, built, profile_levels(window, built))

CallBuildProfile ==
    \E window \in ProfileWindows :
        BuildProfileEffect(window, build_profile(window, profile))

NextProfile == CallBuildProfile

SpecProfile == InitStrategy /\ [][NextProfile]_vars

---------------------------------------------------------------------------
(* SpecIndicators: detect_ema_crossover called directly with every         *)
(* ordering of the two averages and of their previous values.              *)

EmaValues == 0 .. 3

CallDetectEmaCrossover ==
    \E fast_ema \in EmaValues, slow_ema \in EmaValues,
       prev_fast \in EmaValues, prev_slow \in EmaValues :
        /\ last_call' = [fn |-> "detect_ema_crossover",
                         fast_ema |-> fast_ema, slow_ema |-> slow_ema,
                         prev_fast |-> prev_fast, prev_slow |-> prev_slow,
                         value |-> detect_ema_crossover(fast_ema, slow_ema,
                                                        prev_fast, prev_slow)]
        /\ UNCHANGED <<cfgVars, botVars, current_price, acctVars, riskVars, now,
                       condVars, callVars>>

SpecIndicators == InitStrategy /\ [][CallDetectEmaCrossover]_vars

---------------------------------------------------------------------------
(* SpecConditions: the condition analyzer called directly, on candles that *)
(* give every regime with every volatility state at a liquid book, and on  *)
(* every book with every volatility state.                                 *)

\* (k15, change_bp, ema_20, ema_50): unknown, trending_up, trending_down,
\* ranging, transitioning; then a rise and a fall the averages do not
\* confirm, a change of exactly TREND_THRESHOLD and one of exactly
\* RANGING_THRESHOLD (all transitioning), and a small fall (ranging)
RegimeCases ==
    { <<49, 300, 2, 1>>, <<50, 300, 2, 1>>, <<50, -300, 1, 2>>,
      <<50, 10, 2, 1>>, <<50, 100, 2, 1>>,
      <<50, 300, 1, 2>>, <<50, -300, 2, 1>>, <<50, 200, 2, 1>>,
      <<50, 50, 2, 1>>, <<50, -10, 1, 2>> }

\* (k1, volatility_x10): normal, low, high, extreme
VolatilityCases == { <<60, 20>>, <<60, 3>>, <<60, 80>>, <<60, 120>> }

\* (bids, asks, ticker_ok, volume_musd): spreads of 40, 50 and 100 bp;
\* a 24h volume below and at the minimum, and a failed ticker call; a book
\* without bids, without asks, and empty; a crossed and a locked book
BookCases ==
    { <<{9990, 10000}, {10040, 10060}, TRUE, 2000>>,
      <<{10000}, {10050}, TRUE, 2000>>,
      <<{10000}, {10100}, TRUE, 2000>>,
      <<{10000}, {10040}, TRUE, 999>>,
      <<{10000}, {10040}, TRUE, 1000>>,
      <<{10000}, {10100}, FALSE, 2000>>,
      <<{}, {10040}, TRUE, 2000>>,
      <<{10000}, {}, TRUE, 2000>>,
      <<{}, {}, FALSE, 2000>>,
      <<{10040}, {10000}, TRUE, 2000>>,
      <<{10000}, {10000}, TRUE, 2000>> }

ConditionSnapshots ==
    { Snapshot(r[1], r[2], r[3], r[4], v[1], v[2], b[1], b[2], b[3], b[4]) :
        r \in RegimeCases, v \in VolatilityCases,
        b \in {<<{9990, 10000}, {10040, 10060}, TRUE, 2000>>} }
    \cup
    { Snapshot(r[1], r[2], r[3], r[4], v[1], v[2], b[1], b[2], b[3], b[4]) :
        r \in {<<49, 300, 2, 1>>}, v \in VolatilityCases, b \in BookCases }

SignalBiases == {"bullish", "bearish", "neutral"}

InitConditions ==
    /\ ENABLE_TRADING = TRUE
    /\ EMERGENCY_STOP = FALSE
    /\ POSITION_SIZING_METHOD = "fixed_percent"
    /\ ConstructedBot
    /\ ConstructedCollector
    /\ ConstructedAnalyzers
    /\ ConstructedRiskManager
    /\ ConstructedExecutor
    /\ now = 0
    /\ last_call = NoCall

CallAnalyzeConditions ==
    \E c \in ConditionSnapshots :
        LET conditions == analyze_conditions(c)
        IN  /\ current_regime' = conditions.regime
            /\ volatility_state' = conditions.volatility
            /\ last_call' = [fn |-> "analyze_conditions", snapshot |-> c,
                             regime_before |-> current_regime,
                             value |-> conditions]
            /\ UNCHANGED <<cfgVars, botVars, current_price, acctVars, riskVars,
                           now, vpVars, delta_history, callVars>>

CallShouldTrade ==
    \E signal_bias \in SignalBiases :
        /\ last_call' = [fn |-> "should_trade_in_current_conditions",
                         signal_bias |-> signal_bias,
                         regime |-> current_regime,
                         volatility |-> volatility_state,
                         value |-> should_trade_in_current_conditions(
                                       signal_bias, current_regime,
                                       volatility_state)]
        /\ UNCHANGED <<cfgVars, botVars, current_price, acctVars, riskVars, now,
                       condVars, callVars>>

NextConditions ==
    \/ CallAnalyzeConditions
    \/ CallShouldTrade

SpecConditions == InitConditions /\ [][NextConditions]_vars

---------------------------------------------------------------------------
(* SpecSizer and SpecDaily: the risk layer called directly, on every account *)
(* state of the bounded sets.  No code of src/ writes daily_pnl or           *)
(* daily_trades except the daily reset, so their values are drawn here as a  *)
(* caller of the data collector would set them.                              *)

ThreeOpen ==
    <<Position("BOTH", 1, 5), Position("LONG", 1, 0), Position("SHORT", -1, 0)>>

InitSizer ==
    /\ ENABLE_TRADING = TRUE
    /\ EMERGENCY_STOP = FALSE
    /\ POSITION_SIZING_METHOD \in SizingMethods
    /\ ConstructedBot
    /\ ConstructedAnalyzers
    /\ current_price = 0
    /\ account_balance \in SizerBalances
    /\ open_positions \in {<<>>, ThreeOpen}
    /\ daily_pnl \in DailyPnls
    /\ daily_trades = 0
    /\ ConstructedRiskManager
    /\ ConstructedExecutor
    /\ now = 0
    /\ last_call = NoCall

CallCalculatePositionSize ==
    \E entry \in EntryPrices, stop \in StopPrices, strength \in Strengths :
        /\ last_call' = [fn |-> "calculate_position_size",
                         balance |-> account_balance, entry |-> entry,
                         stop |-> stop, strength |-> strength,
                         method |-> POSITION_SIZING_METHOD,
                         value |-> calculate_position_size(account_balance, entry,
                                       stop, strength, POSITION_SIZING_METHOD)]
        /\ UNCHANGED <<cfgVars, botVars, current_price, acctVars, riskVars, now,
                       condVars, callVars>>

\* check_risk_limits on a result of calculate_position_size
CallCheckRiskLimits ==
    \E entry \in EntryPrices, stop \in StopPrices, strength \in Strengths :
        LET size == calculate_position_size(account_balance, entry, stop, strength,
                                            POSITION_SIZING_METHOD)
        IN  /\ ~size.raised
            /\ last_call' = [fn |-> "check_risk_limits", size |-> size,
                             balance |-> account_balance, pnl |-> daily_pnl,
                             n_open |-> Len(open_positions),
                             value |-> check_risk_limits(size, account_balance,
                                           daily_pnl, Len(open_positions))]
            /\ UNCHANGED <<cfgVars, botVars, current_price, acctVars, riskVars, now,
                           condVars, callVars>>

NextSizer ==
    \/ CallCalculatePositionSize
    \/ CallCheckRiskLimits

SpecSizer == InitSizer /\ [][NextSizer]_vars

InitDaily ==
    /\ ENABLE_TRADING = TRUE
    /\ EMERGENCY_STOP = FALSE
    /\ POSITION_SIZING_METHOD = "fixed_percent"
    /\ ConstructedBot
    /\ ConstructedAnalyzers
    /\ current_price = 0
    /\ account_balance \in Balances
    /\ open_positions = <<>>
    /\ daily_pnl \in DailyPnls
    /\ daily_trades = 2
    /\ ConstructedRiskManager
    /\ ConstructedExecutor
    /\ last_call = NoCall

\* time passes, then check_daily_limits() is called
CallCheckDailyLimits ==
    \E t \in now .. MaxNow :
        LET r == check_daily_limits(t, daily_reset_time, daily_pnl, daily_trades,
                                    account_balance)
        IN  /\ now' = t
            /\ daily_pnl' = r.daily_pnl
            /\ daily_trades' = r.daily_trades
            /\ daily_reset_time' = r.daily_reset_time
            /\ last_call' = [fn |-> "check_daily_limits", at |-> t,
                             reset_time |-> daily_reset_time,
                             pnl |-> daily_pnl, trades |-> daily_trades,
                             balance |-> account_balance,
                             reset |-> r.reset, value |-> r.value]
            /\ UNCHANGED <<cfgVars, botVars, current_price, account_balance,
                           open_positions, active_stops, orders, condVars,
                           callVars>>

NextDaily == CallCheckDailyLimits

SpecDaily == InitDaily /\ [][NextDaily]_vars

---------------------------------------------------------------------------
(* SpecExecutor: execute_signal called directly, under every setting of    *)
(* the two switches, while time passes.                                    *)

ExecSignal(action, entry_price, stop_loss, take_profit, strength) ==
    [bias |-> IF action = "buy" THEN "bullish" ELSE "bearish",
     strength |-> strength, reasons |-> <<>>, action |-> action,
     entry_price |-> entry_price, stop_loss |-> stop_loss,
     take_profit |-> take_profit]

\* a buy and a sell as final_decision prices them, and a buy decided before
\* the first trade arrived
ExecSignals ==
    { ExecSignal("buy", 1000, 980, 1040, 65),
      ExecSignal("sell", 1000, 1020, 960, 100),
      ExecSignal("buy", 0, 0, 0, 65) }

ExecReports == {AccountReport(100, <<Position("BOTH", 1, 0)>>)}

\* the fields a call leaves behind, given its decision e, the orders placed
\* and the account as update_account_info leaves it
ExecutionEffect(sig, e, placed, synced) ==
    /\ gates' = e.gates
    /\ submitted' = IF e.place THEN placed.orders ELSE <<>>
    /\ daily_pnl' = e.daily.daily_pnl
    /\ daily_trades' = e.daily.daily_trades
    /\ daily_reset_time' = e.daily.daily_reset_time
    /\ account_balance' = IF e.place /\ placed.completed
                          THEN synced.account_balance ELSE account_balance
    /\ open_positions' = IF e.place /\ placed.completed
                         THEN synced.open_positions ELSE open_positions
    /\ last_call' = [fn |-> "execute_signal", signal |-> sig, at |-> now,
                     reset_time |-> daily_reset_time, pnl |-> daily_pnl,
                     trades |-> daily_trades, balance |-> account_balance,
                     n_open |-> Len(open_positions), raised |-> e.raised,
                     size |-> e.size, orders |-> orders]
    /\ orders' = IF e.place /\ placed.completed
                  THEN Append(orders, OrderRecord(placed.orders, sig))
                  ELSE orders
    /\ UNCHANGED <<cfgVars, current_price, active_stops, now, condVars, steps>>

PlacedEffect(sig, e, fail_at, synced) ==
    ExecutionEffect(sig, e, place_market_order(sig, e.size, fail_at), synced)

\* execute_signal(sig) with its exchange calls ending as fail_at and, when the
\* orders stand, the account sync ending as sync with the exchange reporting
\* report
ExecuteSignalCall(sig, fail_at, sync, report) ==
    PlacedEffect(sig,
        execute_signal(sig, ENABLE_TRADING, EMERGENCY_STOP, now, daily_reset_time,
                       daily_pnl, daily_trades, account_balance,
                       Len(open_positions), POSITION_SIZING_METHOD),
        fail_at,
        update_account_info(sync, report, account_balance, open_positions))

InitExecutor ==
    /\ ENABLE_TRADING \in BOOLEAN
    /\ EMERGENCY_STOP \in BOOLEAN
    /\ POSITION_SIZING_METHOD \in {"fixed_percent", "kelly"}
    /\ ConstructedBot
    /\ ConstructedAnalyzers
    /\ current_price = 1000
    /\ account_balance \in {0, 100}
    /\ open_positions \in {<<>>, ThreeOpen}
    /\ daily_pnl \in {-3, 0}
    /\ daily_trades = 0
    /\ ConstructedRiskManager
    /\ ConstructedExecutor
    /\ now = 0
    /\ last_call = NoCall

CallExecuteSignal ==
    \E sig \in ExecSignals, fail_at \in FailPoints, sync \in SyncOutcomes,
       report \in ExecReports :
        /\ Len(orders) < MaxOrders
        /\ ExecuteSignalCall(sig, fail_at, sync, report)
        /\ UNCHANGED botVars

\* a day and a tick go by
TimePasses ==
    /\ now + TicksPerDay + 1 <= MaxNow
    /\ now' = now + TicksPerDay + 1
    /\ UNCHANGED <<cfgVars, botVars, current_price, acctVars, riskVars, condVars,
                   callVars, last_call>>

NextExecutor ==
    \/ CallExecuteSignal
    \/ TimePasses

SpecExecutor == InitExecutor /\ [][NextExecutor]_vars

---------------------------------------------------------------------------
(* SpecMonitor: monitor_positions called directly, between trades and      *)
(* account syncs that change the price and the positions.                  *)

MonitorPositionLists ==
    { <<>>,
      <<Position("BOTH", 1, 5)>>,
      <<Position("BOTH", 1, 0)>>,
      <<Position("BOTH", -1, 5)>>,
      <<Position("LONG", 1, 5), Position("SHORT", -1, 5)>>,
      <<Position("LONG", 1, 0), Position("SHORT", -1, 0)>> }

MonitorReports == {AccountReport(100, pl) : pl \in MonitorPositionLists}

InitMonitor ==
    /\ ENABLE_TRADING = TRUE
    /\ EMERGENCY_STOP = FALSE
    /\ POSITION_SIZING_METHOD = "fixed_percent"
    /\ ConstructedBot
    /\ ConstructedCollector
    /\ ConstructedAnalyzers
    /\ ConstructedRiskManager
    /\ ConstructedExecutor
    /\ now = 0
    /\ last_call = NoCall

CallUpdateAccountInfo ==
    \E outcome \in SyncOutcomes, report \in MonitorReports :
        LET synced == update_account_info(outcome, report, account_balance,
                                          open_positions)
        IN  /\ account_balance' = synced.account_balance
            /\ open_positions' = synced.open_positions
            /\ UNCHANGED <<cfgVars, botVars, current_price, daily_pnl, daily_trades,
                           riskVars, now, condVars, callVars, last_call>>

CallMonitorPositions ==
    /\ active_stops' = monitor_positions(open_positions, current_price, active_stops)
    /\ last_call' = [fn |-> "monitor_positions", stops_before |-> active_stops]
    /\ UNCHANGED <<cfgVars, botVars, current_price, acctVars, daily_reset_time,
                   orders, now, condVars, callVars>>

NextMonitor ==
    \/ StreamTrade
    \/ CallUpdateAccountInfo
    \/ CallMonitorPositions

SpecMonitor == InitMonitor /\ [][NextMonitor]_vars

---------------------------------------------------------------------------
(* SpecSync: update_account_info called directly; each call succeeds, or   *)
(* fails at futures_account, or fails at futures_position_information.     *)

SyncReports ==
    {AccountReport(b, pl) : b \in {100, 200}, pl \in MonitorPositionLists}

SyncAccount ==
    \E outcome \in SyncOutcomes, report \in SyncReports :
        LET synced == update_account_info(outcome, report, account_balance,
                                          open_positions)
        IN  /\ account_balance' = synced.account_balance
            /\ open_positions' = synced.open_positions
            /\ last_call' = [fn |-> "update_account_info", outcome |-> outcome,
                             account_balance |-> account_balance,
                             open_positions |-> open_positions]
            /\ UNCHANGED <<cfgVars, botVars, current_price, daily_pnl, daily_trades,
                           riskVars, now, condVars, callVars>>

SpecSync == InitStrategy /\ [][SyncAccount]_vars

---------------------------------------------------------------------------
(* SpecAverages: _analyze_moving_averages applied to candles drawn at the  *)
(* start: 199 or 200 five-minute closes, every ordering of the four        *)
(* averages, the previous fast average below, at and above the previous    *)
(* medium one, the last close below, inside and above the averages.        *)

AverageInputs ==
    { MAInput(k5, fast, medium, slow, trend, prev[1], prev[2], close) :
        k5 \in {199, 200}, fast \in 1 .. 4, medium \in 1 .. 4,
        slow \in 1 .. 4, trend \in 1 .. 4,
        prev \in {<<1, 2>>, <<2, 2>>, <<2, 1>>}, close \in {0, 2, 5} }

InitAverages ==
    /\ ENABLE_TRADING = TRUE
    /\ EMERGENCY_STOP = FALSE
    /\ POSITION_SIZING_METHOD = "fixed_percent"
    /\ ConstructedBot
    /\ ConstructedCollector
    /\ ConstructedAnalyzers
    /\ ConstructedRiskManager
    /\ ConstructedExecutor
    /\ now = 0
    /\ \E m \in AverageInputs : last_call = [fn |-> "candles", m |-> m]

CallAnalyzeMovingAverages ==
    /\ last_call.fn = "candles"
    /\ last_call' = [fn |-> "analyze_moving_averages", m |-> last_call.m,
                     value |-> analyze_moving_averages(last_call.m)]
    /\ UNCHANGED <<cfgVars, botVars, current_price, acctVars, riskVars, now,
                   condVars, callVars>>

SpecAverages == InitAverages /\ [][CallAnalyzeMovingAverages]_vars

---------------------------------------------------------------------------
(* SpecDelta: calculate_cumulative_delta and detect_divergence called      *)
(* directly at a constant price, from an empty history and from a history  *)
(* of DELTA_DIVERGENCE_PERIODS - 1 points whose first point is older and   *)
(* cheaper than the others.                                                *)

Footprints == {<<>>, <<1, -1>>}

DeltaHistories ==
    {<<>>, SubSeq(FallingDeltaHistory, 1, DELTA_DIVERGENCE_PERIODS - 1)}

InitDelta ==
    /\ ENABLE_TRADING = TRUE
    /\ EMERGENCY_STOP = FALSE
    /\ POSITION_SIZING_METHOD = "fixed_percent"
    /\ ConstructedBot
    /\ ConstructedRiskManager
    /\ ConstructedExecutor
    /\ current_price = 1200
    /\ account_balance = 0
    /\ open_positions = <<>>
    /\ daily_pnl = 0
    /\ daily_trades = 0
    /\ current_regime = "unknown"
    /\ volatility_state = "normal"
    /\ profile = EmptyProfile
    /\ poc = Zero
    /\ value_area_low = Zero
    /\ value_area_high = Zero
    /\ delta_history \in DeltaHistories
    /\ steps = <<>>
    /\ gates = <<>>
    /\ submitted = <<>>
    /\ now = 0
    /\ last_call = NoCall

CallCalculateCumulativeDelta ==
    \E footprint_df \in Footprints :
        LET r == calculate_cumulative_delta(footprint_df, current_price,
                                            delta_history)
        IN  /\ delta_history' = r.delta_history
            /\ last_call' = [fn |-> "calculate_cumulative_delta",
                             footprint_df |-> footprint_df,
                             history_before |-> delta_history,
                             value |-> r.value]
            /\ UNCHANGED <<cfgVars, botVars, current_price, acctVars, riskVars,
                           now, current_regime, volatility_state, vpVars,
                           callVars>>

CallDetectDivergence ==
    /\ last_call' = [fn |-> "detect_divergence",
                     value |-> detect_divergence(delta_history)]
    /\ UNCHANGED <<cfgVars, botVars, current_price, acctVars, riskVars, now,
                   condVars, callVars>>

NextDelta ==
    \/ CallCalculateCumulativeDelta
    \/ CallDetectDivergence

SpecDelta == InitDelta /\ [][NextDelta]_vars

---------------------------------------------------------------------------
(* Spec: ProductionOrderFlowBot, src/Abot/main.py.  pc is the position of  *)
(* the bot's coroutine: "connect" (initialize), "start" (run, before the   *)
(* loop), "loop" (the head of the while loop, reached from the sleep that  *)
(* ends an iteration), "execute", "monitor", "sync", "sleep" (the steps of *)
(* one iteration), "backoff" (the except branch), "exited".  The calls of  *)
(* one iteration that do not suspend in between are one action each.  The *)
(* run covers less than a day: the clock stays where the constructor read  *)
(* it.                                                                     *)

BotSnapshots ==
    { Snapshot(50, 300, 2, 1, 60, 20, {10000, 9990}, {10040, 10050}, TRUE, 2000),
      Snapshot(50, -300, 1, 2, 60, 3, {10000}, {10100}, TRUE, 2000) }

BotMAInputs == {MAInput(200, 4, 3, 2, 1, 3, 3, 5)}

BotOrderFlows ==
    { OrderFlow(<<>>, FALSE, 0, 0, TRUE, 0, 0),
      OrderFlow(<<Absorption(TRUE, "bullish"), Absorption(TRUE, "bullish")>>,
                TRUE, 30, 10, FALSE, 0, 0) }

BotReports ==
    {AccountReport(100, <<>>), AccountReport(100, <<Position("BOTH", 1, 5)>>)}

\* the mutation of the except branch that gives the loop up
ExceptionLeavesLoop == "exited"

\* lines 169-171: the exception is logged and the loop goes on after a pause
AfterException == "backoff"

Init ==
    /\ ENABLE_TRADING = TRUE
    /\ EMERGENCY_STOP \in BOOLEAN
    /\ POSITION_SIZING_METHOD = "fixed_percent"
    /\ ConstructedBot
    /\ ConstructedCollector
    /\ ConstructedAnalyzers
    /\ ConstructedRiskManager
    /\ ConstructedExecutor
    /\ now = 0
    /\ last_call = NoCall

\* initialize(): data_collector.connect() fetches the account
Connect ==
    /\ pc = "connect"
    /\ \E outcome \in SyncOutcomes, report \in BotReports :
          LET synced == update_account_info(outcome, report, account_balance,
                                            open_positions)
          IN  /\ account_balance' = synced.account_balance
              /\ open_positions' = synced.open_positions
    /\ pc' = "start"
    /\ UNCHANGED <<cfgVars, is_running, analysis_counter, signal, monitored,
                   error_logged, current_price, daily_pnl, daily_trades, riskVars,
                   now, condVars, callVars, last_call>>

\* run() up to the loop
RunStart ==
    /\ pc = "start"
    /\ is_running' = TRUE
    /\ analysis_counter' = 0
    /\ pc' = "loop"
    /\ UNCHANGED <<cfgVars, signal, monitored, error_logged, current_price,
                   acctVars, riskVars, now, condVars, callVars, last_call>>

\* _signal_handler
SignalHandler ==
    /\ pc # "exited"
    /\ is_running
    /\ is_running' = FALSE
    /\ UNCHANGED <<cfgVars, pc, analysis_counter, signal, monitored, error_logged,
                   current_price, acctVars, riskVars, now, condVars, callVars,
                   last_call>>

\* trades arrive while the loop sleeps
TradeArrives == pc = "loop" /\ StreamTrade

\* while self.is_running
ShutdownObserved ==
    /\ pc = "loop"
    /\ ~is_running
    /\ pc' = "exited"
    /\ UNCHANGED <<cfgVars, is_running, analysis_counter, signal, monitored,
                   error_logged, current_price, acctVars, riskVars, now, condVars,
                   callVars, last_call>>

\* if self.config.EMERGENCY_STOP: break
EmergencyStopObserved ==
    /\ pc = "loop"
    /\ is_running
    /\ EMERGENCY_STOP
    /\ pc' = "exited"
    /\ UNCHANGED <<cfgVars, is_running, analysis_counter, signal, monitored,
                   error_logged, current_price, acctVars, riskVars, now, condVars,
                   callVars, last_call>>

IteratingDespiteShutdown == pc = "loop" /\ ~EMERGENCY_STOP

Iterating == pc = "loop" /\ is_running /\ ~EMERGENCY_STOP

AnalysisDue == analysis_counter % ANALYSIS_EVERY = 0

AnalyzeMarket ==
    /\ Iterating
    /\ AnalysisDue
    /\ \E c \in BotSnapshots, m \in BotMAInputs, w \in Windows(current_price),
          o \in BotOrderFlows :
          LET r == analyze_market(c, m, w, o, current_price, profile, delta_history)
          IN  /\ current_regime' = r.conditions.regime
              /\ volatility_state' = r.conditions.volatility
              /\ ProfileEffect(r.profile, r.levels)
              /\ steps' = r.steps
              /\ signal' = IF r.raised THEN NoSignal ELSE r.signal
              /\ error_logged' = (error_logged \/ r.raised)
              /\ pc' = IF r.raised THEN AfterException
                       ELSE IF r.signal.action \in {"buy", "sell"} THEN "execute"
                       ELSE "monitor"
    /\ UNCHANGED <<cfgVars, is_running, analysis_counter, monitored, current_price,
                   acctVars, riskVars, now, delta_history, gates, submitted,
                   last_call>>

SkipAnalysis ==
    /\ Iterating
    /\ ~AnalysisDue
    /\ pc' = "monitor"
    /\ UNCHANGED <<cfgVars, is_running, analysis_counter, signal, monitored,
                   error_logged, current_price, acctVars, riskVars, now, condVars,
                   callVars, last_call>>

ExecuteSignal ==
    /\ pc = "execute"
    /\ \E fail_at \in FailPoints, sync \in SyncOutcomes, report \in BotReports :
          ExecuteSignalCall(signal, fail_at, sync, report)
    /\ error_logged' = (error_logged \/ last_call'.raised)
    /\ pc' = IF last_call'.raised THEN AfterException ELSE "monitor"
    /\ UNCHANGED <<is_running, analysis_counter, signal, monitored>>

\* the awaits of _place_market_order: the four exchange calls and the account
\* refresh, at which other tasks of the event loop run
SuspensionPoints == {"leverage", "entry", "stop_loss", "take_profit", "refresh"}

\* the mutation that runs monitor_positions as a task of its own, which the
\* event loop may schedule while an execution is suspended
MonitorPositionsAsTask ==
    /\ pc \in {"monitor"} \cup SuspensionPoints
    /\ active_stops' = monitor_positions(open_positions, current_price, active_stops)
    /\ monitored' = TRUE
    /\ pc' = IF analysis_counter % ACCOUNT_SYNC_EVERY = 0 THEN "sync" ELSE "sleep"
    /\ UNCHANGED <<cfgVars, is_running, analysis_counter, signal, error_logged,
                   current_price, acctVars, daily_reset_time, orders, now,
                   condVars, callVars, last_call>>

MonitorPositions ==
    /\ pc = "monitor"
    /\ active_stops' = monitor_positions(open_positions, current_price, active_stops)
    /\ monitored' = TRUE
    /\ pc' = IF analysis_counter % ACCOUNT_SYNC_EVERY = 0 THEN "sync" ELSE "sleep"
    /\ UNCHANGED <<cfgVars, is_running, analysis_counter, signal, error_logged,
                   current_price, acctVars, daily_reset_time, orders, now,
                   condVars, callVars, last_call>>

UpdateAccountInfo ==
    /\ pc = "sync"
    /\ \E outcome \in SyncOutcomes, report \in BotReports :
          LET synced == update_account_info(outcome, report, account_balance,
                                            open_positions)
          IN  /\ account_balance' = synced.account_balance
              /\ open_positions' = synced.open_positions
    /\ pc' = "sleep"
    /\ UNCHANGED <<cfgVars, is_running, analysis_counter, signal, monitored,
                   error_logged, current_price, daily_pnl, daily_trades, riskVars,
                   now, condVars, callVars, last_call>>

\* the locals and the traces of the iteration that ends
NextIteration ==
    /\ signal' = NoSignal
    /\ monitored' = FALSE
    /\ steps' = <<>>
    /\ gates' = <<>>
    /\ submitted' = <<>>
    /\ last_call' = NoCall
    /\ pc' = "loop"

\* analysis_counter += 1; await asyncio.sleep(1)
Sleep ==
    /\ pc = "sleep"
    /\ analysis_counter < MaxCounter
    /\ analysis_counter' = analysis_counter + 1
    /\ NextIteration
    /\ UNCHANGED <<cfgVars, is_running, error_logged, current_price, acctVars,
                   riskVars, now, condVars>>

\* await asyncio.sleep(5) in the except branch
Backoff ==
    /\ pc = "backoff"
    /\ NextIteration
    /\ UNCHANGED <<cfgVars, is_running, analysis_counter, error_logged,
                   current_price, acctVars, riskVars, now, condVars>>

Next ==
    \/ Connect
    \/ RunStart
    \/ SignalHandler
    \/ TradeArrives
    \/ ShutdownObserved
    \/ EmergencyStopObserved
    \/ AnalyzeMarket
    \/ SkipAnalysis
    \/ ExecuteSignal
    \/ MonitorPositions
    \/ UpdateAccountInfo
    \/ Sleep
    \/ Backoff

Spec == Init /\ [][Next]_vars

\* await self.order_executor.execute_signal(signal) returns or raises: the
\* step ExecuteSignal as the position of run() shows it
ExecuteSignalReturns == pc = "execute" /\ pc' \in {"monitor", AfterException}

\* Every step of the run loop is an awaited call that ends (the exchange
\* client answers or times out, asyncio.sleep ends): the event loop then
\* resumes run(), so a step of the loop that stays enabled is taken.
SpecShutdown ==
    /\ Init /\ [][Next]_vars
    /\ WF_vars(ShutdownObserved)
    /\ WF_pc(ExecuteSignalReturns)
    /\ WF_vars(MonitorPositions)
    /\ WF_vars(UpdateAccountInfo)
    /\ WF_vars(Sleep)
    /\ WF_vars(Backoff)

---------------------------------------------------------------------------
(* Claims about the risk layer *)

\* |pnl| / balance x 100 >= percent as a comparison of fractions; a loss on a
\* balance of zero is beyond every percentage
LossPercentIsAtLeast(pnl, balance, percent) ==
    \/ balance = 0
    \/ balance # 0 /\ ~FLess(Frac(Abs(pnl) * 100, balance), Frac(percent, 1))

BoundaryCrossed(r, t) == (Day(r) + 1) * TicksPerDay < t

\* C8: a call of check_daily_limits resets daily_pnl and daily_trades to zero
\* exactly when a midnight boundary has been crossed since the last reset (the
\* first call after the boundary resets, no other call does).
C8_ResetOncePerBoundary ==
    last_call.fn = "check_daily_limits" =>
        /\ last_call.reset <=> BoundaryCrossed(last_call.reset_time, last_call.at)
        /\ last_call.reset => daily_pnl = 0 /\ daily_trades = 0

C10_NoBalanceResult ==
    (last_call.fn = "calculate_position_size" /\ last_call.balance <= 0) =>
        /\ ~last_call.value.raised
        /\ last_call.value.method = "no_balance"
        /\ last_call.value.quantity_btc = Zero
        /\ last_call.value.notional_usdt = Zero
        /\ last_call.value.risk_usdt = Zero

\* a call with no balance on the inputs where the sizing arithmetic divides by
\* zero (entry price 0, or entry = stop) under each dividing method
C10_Witness ==
    /\ last_call.fn = "calculate_position_size"
    /\ last_call.balance <= 0
    /\ last_call.entry = 0
    /\ last_call.method = "kelly"
    /\ last_call.value.method = "no_balance"

---------------------------------------------------------------------------
(* Claims about the strategy *)

\* the market condition gate, asked about the returned bias under the regime
\* and volatility the same call classified
ApprovedThisCycle ==
    should_trade_in_current_conditions(signal.bias, last_call.conditions.regime,
                                       last_call.conditions.volatility).should_trade

\* C5: a signal returned by analyze_market has action buy or sell only if its
\* strength is >= MIN_SIGNAL_STRENGTH and should_trade_in_current_conditions
\* approved its bias in that call; in every other case the action is wait.
C5_ActionNeedsStrengthAndGate ==
    (last_call.fn = "analyze_market" /\ ~last_call.raised) =>
        /\ signal.action \in {"buy", "sell", "wait"}
        /\ signal.action \in {"buy", "sell"} =>
              /\ signal.strength >= MIN_SIGNAL_STRENGTH
              /\ ApprovedThisCycle
        /\ ~(signal.strength >= MIN_SIGNAL_STRENGTH /\ ApprovedThisCycle) =>
              signal.action = "wait"

\* a strong bearish signal against an uptrend was held back, and a strong
\* bullish one was let through
C5_Witness ==
    /\ last_call.fn = "analyze_market" /\ ~last_call.raised
    /\ last_call.conditions.is_tradeable
    /\ signal.strength >= MIN_SIGNAL_STRENGTH
    /\ \/ signal.action = "buy" /\ ApprovedThisCycle
                                /\ signal.stop_loss < signal.entry_price
       \/ signal.action = "wait" /\ signal.bias = "bearish" /\ ~ApprovedThisCycle
                                 /\ current_regime = "trending_up"

\* C6: when analyze_conditions reports is_tradeable = false, analyze_market
\* returns a signal with bias neutral, strength 0, action wait and one reason
\* that carries the condition warnings, and runs none of the later steps: the
\* volume profile is not rebuilt.
C6_NotTradeableShortCircuits ==
    (last_call.fn = "analyze_market" /\ ~last_call.conditions.is_tradeable) =>
        /\ ~last_call.raised
        /\ signal.bias = "neutral" /\ signal.strength = 0 /\ signal.action = "wait"
        /\ signal.entry_price = 0 /\ signal.stop_loss = 0 /\ signal.take_profit = 0
        /\ last_call.conditions.warnings # <<>>
        /\ signal.reasons = <<[tag |-> "not_tradeable",
                               detail |-> last_call.conditions.warnings]>>
        /\ steps = <<"market_conditions">>
        /\ profile = last_call.profile_before

\* an untradeable market met with the profile of an earlier call
C6_Witness ==
    /\ last_call.fn = "analyze_market" /\ ~last_call.conditions.is_tradeable
    /\ Len(last_call.conditions.warnings) = 2
    /\ profile # EmptyProfile
    /\ steps = <<"market_conditions">>

---------------------------------------------------------------------------
(* SpecSuspend: the run loop with execute_signal taken one await at a time. *)
(* The gate checks of execute_signal are synchronous; _place_market_order   *)
(* awaits the four exchange calls and the account refresh, and the stream   *)
(* tasks run at each of these awaits.                                       *)

\* execute_signal up to the first await of _place_market_order
StartExecution ==
    /\ pc = "execute"
    /\ LET e == execute_signal(signal, ENABLE_TRADING, EMERGENCY_STOP, now,
                               daily_reset_time, daily_pnl, daily_trades,
                               account_balance, Len(open_positions),
                               POSITION_SIZING_METHOD)
       IN  /\ gates' = e.gates
           /\ daily_pnl' = e.daily.daily_pnl
           /\ daily_trades' = e.daily.daily_trades
           /\ daily_reset_time' = e.daily.daily_reset_time
           /\ last_call' = [fn |-> "execute_signal", signal |-> signal, at |-> now,
                            reset_time |-> daily_reset_time, pnl |-> daily_pnl,
                            trades |-> daily_trades, balance |-> account_balance,
                            n_open |-> Len(open_positions), raised |-> e.raised,
                            size |-> e.size, orders |-> orders]
           /\ error_logged' = (error_logged \/ e.raised)
           /\ pc' = IF e.raised THEN AfterException
                    ELSE IF e.place THEN "leverage" ELSE "monitor"
    /\ UNCHANGED <<cfgVars, is_running, analysis_counter, signal, monitored,
                   current_price, account_balance, open_positions, active_stops,
                   orders, now, condVars, steps, submitted>>

\* await futures_change_leverage: it returns, or raises into the except branch
ChangeLeverage ==
    /\ pc = "leverage"
    /\ \E ok \in BOOLEAN : pc' = IF ok THEN "entry" ELSE "monitor"
    /\ UNCHANGED <<cfgVars, is_running, analysis_counter, signal, monitored,
                   error_logged, current_price, acctVars, riskVars, now, condVars,
                   callVars, last_call>>

\* the orders sent once the exchange call named call has returned (ok) or
\* raised
SubmissionsUpTo(sig, position_size, call, ok) ==
    LET refused == place_market_order(sig, position_size, call).orders
        all     == place_market_order(sig, position_size, "none").orders
    IN  IF ok THEN SubSeq(all, 1, Len(refused)) ELSE refused

\* await futures_create_order for the order named call; after the third one
\* the execution is stored in self.orders
SubmitOrder(call, next) ==
    /\ pc = call
    /\ \E ok \in BOOLEAN :
          /\ submitted' = SubmissionsUpTo(signal, last_call.size, call, ok)
          /\ pc' = IF ok THEN next ELSE "monitor"
          /\ orders' = IF ok /\ next = "refresh"
                        THEN Append(orders, OrderRecord(submitted', signal))
                        ELSE orders
    /\ UNCHANGED <<cfgVars, is_running, analysis_counter, signal, monitored,
                   error_logged, current_price, acctVars, active_stops,
                   daily_reset_time, now, condVars, steps, gates, last_call>>

SubmitEntry == SubmitOrder("entry", "stop_loss")

SubmitStopLoss == SubmitOrder("stop_loss", "take_profit")

SubmitTakeProfit == SubmitOrder("take_profit", "refresh")

\* await self.data_collector.update_account_info()
RefreshAccount ==
    /\ pc = "refresh"
    /\ \E outcome \in SyncOutcomes, report \in BotReports :
          LET synced == update_account_info(outcome, report, account_balance,
                                            open_positions)
          IN  /\ account_balance' = synced.account_balance
              /\ open_positions' = synced.open_positions
    /\ pc' = "monitor"
    /\ UNCHANGED <<cfgVars, is_running, analysis_counter, signal, monitored,
                   error_logged, current_price, daily_pnl, daily_trades, riskVars,
                   now, condVars, callVars, last_call>>

\* stream_trades handles a message while the execution is suspended
TradeInterleaves == pc \in SuspensionPoints /\ StreamTrade

NextSuspend ==
    \/ Connect
    \/ RunStart
    \/ SignalHandler
    \/ TradeArrives
    \/ ShutdownObserved
    \/ EmergencyStopObserved
    \/ AnalyzeMarket
    \/ SkipAnalysis
    \/ StartExecution
    \/ ChangeLeverage
    \/ SubmitEntry
    \/ SubmitStopLoss
    \/ SubmitTakeProfit
    \/ RefreshAccount
    \/ TradeInterleaves
    \/ MonitorPositions
    \/ UpdateAccountInfo
    \/ Sleep
    \/ Backoff

SpecSuspend == Init /\ [][NextSuspend]_vars

---------------------------------------------------------------------------
(* Claims about the executor, the trailing stop and the run loop *)

\* C1: execute_signal submits an order only if, in that call and in this
\* order, ENABLE_TRADING is on, EMERGENCY_STOP is off, check_daily_limits
\* returned OK and check_risk_limits accepted the computed position size; the
\* first check that fails ends the call with no order submitted and no later
\* check made.
C1_OrderOnlyAfterAllGates ==
    last_call.fn = "execute_signal" =>
        LET sig   == last_call.signal
            daily == check_daily_limits(last_call.at, last_call.reset_time,
                                        last_call.pnl, last_call.trades,
                                        last_call.balance)
            size  == calculate_position_size(last_call.balance, sig.entry_price,
                                             sig.stop_loss, sig.strength,
                                             POSITION_SIZING_METHOD)
            risk  == check_risk_limits(size, last_call.balance, daily.daily_pnl,
                                       last_call.n_open)
            n     == Len(gates)
        IN  /\ submitted # <<>> =>
                  /\ ENABLE_TRADING /\ ~EMERGENCY_STOP
                  /\ daily.value = "ok"
                  /\ ~size.raised /\ risk.is_valid
                  /\ gates = GatesUpTo(5, "pass")
            /\ n \in 1 .. 5
            /\ \A i \in 1 .. n : /\ gates[i].gate = GateOrder[i]
                                 /\ i < n => gates[i].outcome = "pass"
            /\ gates[n].outcome # "pass" => submitted = <<>>
            /\ ~ENABLE_TRADING => n = 1
            /\ (ENABLE_TRADING /\ EMERGENCY_STOP) => n = 2
            /\ (ENABLE_TRADING /\ ~EMERGENCY_STOP /\ daily.value # "ok") => n = 3

\* the three orders of a sell stand after all checks passed
C1_Witness ==
    /\ last_call.fn = "execute_signal"
    /\ gates = GatesUpTo(5, "pass")
    /\ Len(submitted) = 3
    /\ submitted[1].side = "SELL" /\ submitted[3].accepted

\* C2: the trailing stop tracked for a position id changes only in a step
\* where the position with that id has unrealized PnL > 0, and then only to a
\* strictly higher value for a long position and a strictly lower one for a
\* short (or from no stop to a first one).
C2_TrailingStopMonotone ==
    [][\A id \in PositionSides :
          active_stops'[id] # active_stops[id] =>
              \E i \in 1 .. Len(open_positions) :
                  LET position == open_positions[i] IN
                  /\ position.positionSide = id
                  /\ position.unRealizedProfit > 0
                  /\ position.positionAmt > 0 =>
                        \/ active_stops[id] = NoStop
                        \/ active_stops'[id] > active_stops[id]
                  /\ position.positionAmt < 0 =>
                        \/ active_stops[id] = NoStop
                        \/ active_stops'[id] < active_stops[id]]_vars

\* monitor_positions raised the stop of a long and left alone, in the same
\* call or an earlier one, the stop of a position that was not in profit
C2_Witness ==
    /\ last_call.fn = "monitor_positions"
    /\ \E id \in PositionSides :
          /\ last_call.stops_before[id] # NoStop
          /\ active_stops[id] > last_call.stops_before[id]
          /\ \E i \in 1 .. Len(open_positions) :
                /\ open_positions[i].positionSide = id
                /\ open_positions[i].positionAmt > 0

\* C3: every iteration of the run loop that does not exit invokes
\* monitor_positions, whatever analysis and execution did: an iteration that
\* reached its sleep, or the pause of the except branch, has monitored.
C3_MonitoredEveryIteration ==
    pc \in {"sleep", "backoff"} => monitored

\* C4: the run loop is left only from its head, with EMERGENCY_STOP set or
\* is_running false; an exception raised inside an iteration is caught (it
\* is logged and the pause of the except branch follows) and the loop goes
\* on to its head.
C4_LoopLeftOnlyOnStopOrShutdown ==
    [][/\ (pc' = "exited" /\ pc # "exited") =>
              (pc = "loop" /\ (EMERGENCY_STOP \/ ~is_running))
       /\ (error_logged' /\ ~error_logged) => pc' = "backoff"
       /\ (pc = "backoff" /\ pc' # "backoff") => pc' = "loop"]_vars

\* after a caught exception a further iteration ran to its end
C4_Witness ==
    /\ error_logged
    /\ pc = "sleep"
    /\ monitored
    /\ is_running


\* ---------------------------------------------------------------------
\* order_executor.py 33-53 with position_sizer.py 28-29, 119-142 and
\* risk_manager.py 77-84: a call with no balance
\* ---------------------------------------------------------------------

\* C11: a call of execute_signal with an account balance of zero or less
\* submits no order and does not raise, whatever the daily PnL and the
\* number of open positions
C11_NoOrderWithoutBalance ==
    (last_call.fn = "execute_signal" /\ last_call.balance <= 0) =>
        /\ submitted = <<>>
        /\ ~last_call.raised


\* ---------------------------------------------------------------------
\* position_sizer.py 26-63: the fixed_percent result
\* ---------------------------------------------------------------------

RejectionReasons ==
    {"market_is_ranging", "bullish_against_downtrend", "bearish_against_uptrend",
     "volatility_too_high"}

\* C13: should_trade_in_current_conditions rejects whenever the regime is
\* ranging, for every bias and volatility; otherwise it rejects a bullish bias
\* in a downtrend and a bearish bias in an uptrend when
\* REQUIRE_TREND_CONFIRMATION is set; otherwise it rejects under extreme
\* volatility; it approves in every remaining case, the unknown and
\* transitioning regimes included.  Every rejection carries a reason.
C13_GateDecision ==
    last_call.fn = "should_trade_in_current_conditions" =>
        LET v       == last_call.value
            ranging == last_call.regime = "ranging"
            against ==
                /\ REQUIRE_TREND_CONFIRMATION
                /\ \/ last_call.signal_bias = "bullish"
                        /\ last_call.regime = "trending_down"
                   \/ last_call.signal_bias = "bearish"
                        /\ last_call.regime = "trending_up"
            extreme == last_call.volatility = "extreme"
        IN  /\ v.should_trade <=> (~ranging /\ ~against /\ ~extreme)
            /\ ranging => v.reason = "market_is_ranging"
            /\ (~ranging /\ against) =>
                   v.reason \in {"bullish_against_downtrend",
                                 "bearish_against_uptrend"}
            /\ (~ranging /\ ~against /\ extreme) => v.reason = "volatility_too_high"
            /\ ~v.should_trade => v.reason \in RejectionReasons

\* a bullish bias is refused in a ranging market of normal volatility
C13_Witness ==
    /\ last_call.fn = "should_trade_in_current_conditions"
    /\ last_call.signal_bias = "bullish"
    /\ last_call.regime = "ranging"
    /\ last_call.volatility = "normal"
    /\ ~last_call.value.should_trade


\* ---------------------------------------------------------------------
\* enhanced_strategy.py 53-104: the fusion of the contributors
\* ---------------------------------------------------------------------

Directions == {"bullish", "bearish"}

\* the contributors that fired with a direction in the last call
Directed == {i \in 1 .. Len(last_call.fusion) :
                 /\ last_call.fusion[i].fired
                 /\ last_call.fusion[i].direction \in Directions}

\* C14: within one analyze_market cycle, once a step has set the bias to a
\* direction no later step changes it: the final bias is the direction of the
\* first contributor to fire in the order moving averages, support,
\* resistance, divergence, order flow, and the later contributors only add
\* strength.
C14_FirstDirectionWins ==
    (last_call.fn = "analyze_market" /\ last_call.fusion # <<>>) =>
        LET f == last_call.fusion IN
        /\ [i \in 1 .. Len(f) |-> f[i].contributor] =
               <<"moving_averages", "support", "resistance", "divergence",
                 "orderflow">>
        /\ \A i, j \in 1 .. Len(f) :
               (i < j /\ f[i].bias # "neutral") => f[j].bias = f[i].bias
        /\ \A i \in 2 .. Len(f) : f[i].strength >= f[i - 1].strength
        /\ signal.bias = f[Len(f)].bias
        /\ signal.bias = IF Directed = {} THEN "neutral"
                         ELSE f[SetMin(Directed)].direction

\* an earlier contributor's direction stands against a later contributor that
\* fired with the opposite direction and added its strength
C14_Witness ==
    /\ last_call.fn = "analyze_market" /\ last_call.fusion # <<>>
    /\ \E i, j \in Directed :
          /\ i < j
          /\ last_call.fusion[i].direction # last_call.fusion[j].direction
          /\ signal.bias = last_call.fusion[i].direction
          /\ last_call.fusion[j].strength > last_call.fusion[i].strength


\* ---------------------------------------------------------------------
\* enhanced_strategy.py 106-127: the prices of a buy and of a sell
\* ---------------------------------------------------------------------

C16_WaitHasRejectionReason ==
    (/\ last_call.fn = "analyze_market" /\ ~last_call.raised
     /\ last_call.conditions.is_tradeable
     /\ signal.action = "wait") =>
        \E i \in 1 .. Len(signal.reasons) :
            signal.reasons[i].tag \in RejectionReasons


---------------------------------------------------------------------------
(* Claims about the volume profile *)

RECURSIVE WindowVolume(_)
WindowVolume(window) ==
    IF window = <<>> THEN 0
    ELSE Head(window).quantity + WindowVolume(Tail(window))

\* C17: for every non-empty window of trades the profile that build_profile
\* builds conserves volume: the sum of the volumes of its bins, and the
\* total_volume it reports, equal the sum of the quantities of the trades.
C17_VolumeConserved ==
    (last_call.fn = "build_profile" /\ last_call.window # <<>>) =>
        /\ ~last_call.raised
        /\ SumOver(profile, DOMAIN profile) = WindowVolume(last_call.window)
        /\ last_call.value.total_volume = WindowVolume(last_call.window)

\* the bins from the value area's low to its high
ValueAreaBins ==
    {k \in DOMAIN profile : ~FLess(k, value_area_low) /\ ~FLess(value_area_high, k)}

\* C18: after build_profile on a non-empty window, value_area_low and
\* value_area_high are occupied bins, the run of bins between them contains
\* the POC bin, and the volume of that run is at least VP_VALUE_AREA_PERCENT
\* of the total volume.
C18_ValueAreaAroundPOC ==
    (last_call.fn = "build_profile" /\ last_call.window # <<>>) =>
        /\ {poc, value_area_low, value_area_high} \subseteq DOMAIN profile
        /\ poc \in ValueAreaBins
        /\ SumOver(profile, ValueAreaBins) * 100 >=
               SumOver(profile, DOMAIN profile) * VP_VALUE_AREA_PERCENT

\* C19: each step of the value area expansion grows the area to the
\* neighbouring bin with the greater volume, grows it downward when the two
\* neighbours have the same volume, and the expansion stops as soon as one
\* side has no further bin.
C19_ExpansionRule ==
    (last_call.fn = "build_profile" /\ ~last_call.raised
                                    /\ ~last_call.returned_empty) =>
        \A i \in 1 .. Len(last_call.expansion) :
            LET e == last_call.expansion[i] IN
            IF e.low_exhausted \/ e.high_exhausted THEN e.direction = "break"
            ELSE IF e.low_vol >= e.high_vol THEN e.direction = "down"
            ELSE e.direction = "up"

\* C20: build_profile gives every trade of the window a bin index in
\* 0 .. VP_PRICE_BINS - 1, so that the profile holds at most VP_PRICE_BINS
\* bins and no bin starts at the maximum price of the window.
C20_BinIndexInRange ==
    (last_call.fn = "build_profile" /\ ~last_call.raised
                                    /\ ~last_call.returned_empty) =>
        LET window    == last_call.window
            min_price == SetMin(WindowPrices(window))
            max_price == SetMax(WindowPrices(window))
        IN  /\ \A i \in 1 .. Len(window) :
                   BinIndex(window[i].price, min_price, max_price)
                       \in 0 .. (VP_PRICE_BINS - 1)
            /\ Cardinality(DOMAIN profile) <= VP_PRICE_BINS
            /\ Frac(max_price, 1) \notin DOMAIN profile

\* C21: the POC chosen by build_profile is a bin of maximum aggregated
\* volume, and when several bins tie for the maximum it is the one with the
\* lowest price, in whatever order the trades of the window arrived.
C21_PocLowestOfTies ==
    (last_call.fn = "build_profile" /\ ~last_call.raised
                                    /\ ~last_call.returned_empty) =>
        /\ poc \in DOMAIN profile
        /\ \A k \in DOMAIN profile : profile[k] <= profile[poc]
        /\ \A k \in DOMAIN profile :
               profile[k] = profile[poc] => ~FLess(k, poc)

\* C22: after any sequence of build_profile calls the profile the analyzer
\* holds is the one of the trades of the latest call's window; after a call
\* that finds no trade in the window the profile is empty and
\* get_support_resistance returns no support and no resistance at any price.
C22_ProfileOfLatestWindow ==
    (last_call.fn = "build_profile" /\ ~last_call.raised) =>
        /\ profile = build_profile(last_call.window, EmptyProfile).profile
        /\ last_call.returned_empty =>
               \A t \in ProfileTrades :
                   get_support_resistance(profile, t.price) =
                       [support |-> {}, resistance |-> {}]


---------------------------------------------------------------------------
(* Claims about the indicators *)

\* C23: detect_ema_crossover is antisymmetric under swapping the roles of
\* the two averages: crossover(a, b, pa, pb) is bullish exactly when
\* crossover(b, a, pb, pa) is bearish; it never returns bullish for inputs
\* that satisfy the bearish condition, and it returns none when fast = slow.
C23_CrossoverAntisymmetric ==
    last_call.fn = "detect_ema_crossover" =>
        LET a  == last_call.fast_ema
            b  == last_call.slow_ema
            pa == last_call.prev_fast
            pb == last_call.prev_slow
        IN  /\ last_call.value = "bullish"
                   <=> detect_ema_crossover(b, a, pb, pa) = "bearish"
            /\ (pa >= pb /\ a < b) => last_call.value # "bullish"
            /\ a = b => last_call.value = "none"

\* a bullish crossover from equal previous values, whose swap is bearish
C23_Witness ==
    /\ last_call.fn = "detect_ema_crossover"
    /\ last_call.value = "bullish"
    /\ last_call.prev_fast = last_call.prev_slow
    /\ detect_ema_crossover(last_call.slow_ema, last_call.fast_ema,
                            last_call.prev_slow, last_call.prev_fast) = "bearish"

\* C24: no analyzer raises on insufficient or degenerate data: in
\* particular build_profile returns a result without raising for every
\* window of trades, a window whose trades all have the same price included.
C24_BuildProfileReturns ==
    last_call.fn = "build_profile" =>
        /\ ~last_call.raised
        /\ last_call.window # <<>> => last_call.value # <<>>


---------------------------------------------------------------------------
(* Claims about the account sync *)

\* C25: when update_account_info fails at any of its exchange calls, the
\* account state keeps its last-known values: account_balance and
\* open_positions are the same after the failed sync as before it.
C25_FailedSyncKeepsAccount ==
    (last_call.fn = "update_account_info" /\ last_call.outcome # "ok") =>
        /\ account_balance = last_call.account_balance
        /\ open_positions = last_call.open_positions


---------------------------------------------------------------------------
(* Claims about the delta history *)

\* C26: every call to calculate_cumulative_delta appends exactly one point
\* (cumulative delta, price) to the delta history, whose length never
\* exceeds DELTA_HISTORY_MAXLEN, the oldest point being evicted;
\* detect_divergence reports a divergence only when at least
\* DELTA_DIVERGENCE_PERIODS points are held.
C26_EveryCallAppendsOnePoint ==
    /\ Len(delta_history) <= DELTA_HISTORY_MAXLEN
    /\ last_call.fn = "calculate_cumulative_delta" =>
          delta_history =
              DequeAppend(last_call.history_before,
                          [delta |-> last_call.value, price |-> current_price])
    /\ (last_call.fn = "detect_divergence" /\ last_call.value.type # "none") =>
          Len(delta_history) >= DELTA_DIVERGENCE_PERIODS


---------------------------------------------------------------------------
(* Claims about the market conditions *)

\* C27: analyze_conditions reports is_tradeable = false exactly when the
\* spread exceeds MAX_SPREAD_BIPS or the 24h volume is below
\* MIN_VOLUME_24H_USDT, each with its warning; a book without bids or
\* without asks yields the spread NO_BOOK_SPREAD and is never tradeable;
\* extreme or low volatility adds a warning and does not change is_tradeable.
C27_TradeableExactlyWhenLiquid ==
    last_call.fn = "analyze_conditions" =>
        LET c == last_call.snapshot
            v == last_call.value
            wide == FLess(Frac(MAX_SPREAD_BIPS, 1), v.spread_bips)
            thin == v.volume_24h < MIN_VOLUME_24H_MUSD
            Warned(w) == \E i \in 1 .. Len(v.warnings) : v.warnings[i] = w
        IN  /\ v.is_tradeable <=> ~(wide \/ thin)
            /\ Warned("spread_too_wide") <=> wide
            /\ Warned("low_24h_volume") <=> thin
            /\ v.volume_24h = IF c.ticker_ok THEN c.volume_musd ELSE 0
            /\ (c.bids = {} \/ c.asks = {}) =>
                   /\ v.spread_bips = Frac(NO_BOOK_SPREAD, 1)
                   /\ ~v.is_tradeable
            /\ Warned("extreme_volatility") <=> v.volatility = "extreme"
            /\ Warned("low_volatility") <=> v.volatility = "low"
            /\ \A other \in VolatilityCases :
                   analyze_conditions([c EXCEPT !.k1 = other[1],
                                                !.volatility_x10 = other[2]]
                                     ).is_tradeable = v.is_tradeable

\* a book without bids at a sufficient volume and extreme volatility: not
\* tradeable, with the spread warning and the volatility warning only
C27_Witness ==
    /\ last_call.fn = "analyze_conditions"
    /\ last_call.snapshot.bids = {} /\ last_call.snapshot.asks # {}
    /\ last_call.value.volatility = "extreme"
    /\ ~last_call.value.is_tradeable
    /\ last_call.value.warnings = <<"spread_too_wide", "extreme_volatility">>

\* C28: whenever both sides of the order book are non-empty and the best
\* bid is not below the best ask (a crossed or locked book),
\* analyze_conditions does not report the market tradeable.
C28_CrossedBookNotTradeable ==
    (/\ last_call.fn = "analyze_conditions"
     /\ last_call.snapshot.bids # {} /\ last_call.snapshot.asks # {}
     /\ SetMax(last_call.snapshot.bids) >= SetMin(last_call.snapshot.asks)) =>
        ~last_call.value.is_tradeable

Regimes == {"unknown", "trending_up", "trending_down", "ranging", "transitioning"}

\* the regimes a call of analyze_conditions can store, whatever it finds
SnapshotRegimes == {detect_regime(c) : c \in ConditionSnapshots}

\* C29: the regime analyze_conditions stores is computed from the candles of
\* the call alone: unknown with fewer than REGIME_PERIODS closes; trending_up
\* if the price change is above TREND_THRESHOLD and EMA20 > EMA50;
\* trending_down in the mirror case; else ranging if the absolute change is
\* below RANGING_THRESHOLD; else transitioning.  Exactly one regime results,
\* and a single call can lead to every regime, whatever the regime before.
C29_RegimeFromScratch ==
    /\ last_call.fn = "analyze_conditions" =>
          LET c      == last_call.snapshot
              regime == last_call.value.regime
              enough == c.k15 >= REGIME_PERIODS
              up     == c.change_bp > TREND_THRESHOLD_BP /\ c.ema_20 > c.ema_50
              down   == c.change_bp < -TREND_THRESHOLD_BP /\ c.ema_20 < c.ema_50
              flat   == Abs(c.change_bp) < RANGING_THRESHOLD_BP
          IN  /\ current_regime = regime
              /\ regime \in Regimes
              /\ regime = "unknown" <=> ~enough
              /\ regime = "trending_up" <=> (enough /\ up)
              /\ regime = "trending_down" <=> (enough /\ ~up /\ down)
              /\ regime = "ranging" <=> (enough /\ ~up /\ ~down /\ flat)
              /\ regime = "transitioning" <=> (enough /\ ~up /\ ~down /\ ~flat)
    /\ Regimes \subseteq SnapshotRegimes

\* a call that found the market trending up leaves it trending down
C29_Witness ==
    /\ last_call.fn = "analyze_conditions"
    /\ last_call.regime_before = "trending_up"
    /\ current_regime = "trending_down"


---------------------------------------------------------------------------
(* Claims about the shutdown *)

\* run() has entered its loop and not left it
InRunLoop == pc \notin {"connect", "start", "exited"}

\* C30: once the shutdown flag is set while the loop runs, the flag stays
\* set, the iteration in progress goes on to its end (an order submitted in
\* it is not taken back), the loop test starts no further iteration, and the
\* loop exits.
C30_ShutdownFinishesIteration ==
    /\ [][(InRunLoop /\ ~is_running) =>
            /\ ~is_running'
            /\ pc = "loop" => pc' \in {"loop", "exited"}
            /\ pc' # "loop" =>
                  /\ Len(submitted) <= Len(submitted')
                  /\ SubSeq(submitted', 1, Len(submitted)) = submitted]_vars
    /\ (InRunLoop /\ ~is_running /\ analysis_counter < MaxCounter)
           ~> (pc = "exited")

\* the flag is set in an iteration that has submitted an order and goes on
\* to monitor the positions
C30_Witness ==
    /\ ~is_running
    /\ pc = "monitor"
    /\ submitted # <<>>


---------------------------------------------------------------------------
(* Claims about the moving-average sub-signal *)

\* C31: with at least EMA_TREND five-minute closes the strength of the
\* moving-average sub-signal is 25 for a fast/medium crossover, plus 10 when
\* the last close confirms it against the trend average, plus 15 for a full
\* ordering of the averages; it lies in {0, 15, 25, 35, 40, 50}, it is
\* non-zero exactly when the direction is not none, and a full ordering sets
\* the direction.
C31_AverageStrengthIsSum ==
    (last_call.fn = "analyze_moving_averages" /\ last_call.m.k5 >= EMA_TREND) =>
        LET m == last_call.m
            v == last_call.value
            up_cross   == m.prev_fast <= m.prev_medium /\ m.ema_fast > m.ema_medium
            down_cross == m.prev_fast >= m.prev_medium /\ m.ema_fast < m.ema_medium
            confirmed  == \/ up_cross /\ m.close > m.ema_trend
                          \/ down_cross /\ m.close < m.ema_trend
            up_order   == /\ m.ema_fast > m.ema_medium /\ m.ema_medium > m.ema_slow
                          /\ m.ema_slow > m.ema_trend
            down_order == /\ m.ema_fast < m.ema_medium /\ m.ema_medium < m.ema_slow
                          /\ m.ema_slow < m.ema_trend
        IN  /\ v.strength = (IF up_cross \/ down_cross THEN 25 ELSE 0)
                              + (IF confirmed THEN 10 ELSE 0)
                              + (IF up_order \/ down_order THEN 15 ELSE 0)
            /\ v.strength \in {0, 15, 25, 35, 40, 50}
            /\ v.strength # 0 <=> v.signal # "none"
            /\ up_order => v.signal = "bullish"
            /\ down_order => v.signal = "bearish"

\* an unconfirmed bearish crossover with the averages in full falling order
C31_Witness ==
    /\ last_call.fn = "analyze_moving_averages"
    /\ last_call.value.strength = 40
    /\ last_call.value.signal = "bearish"


---------------------------------------------------------------------------
(* Claims about the analysis cycle *)

\* C32: for every market-data state in which the market is tradeable,
\* analyze_market runs its steps in order (market conditions, moving
\* averages, volume profile, divergence, order flow, final decision) and
\* returns a signal without raising.
C32_TradeableCycleReturnsSignal ==
    (last_call.fn = "analyze_market" /\ last_call.conditions.is_tradeable) =>
        /\ ~last_call.raised
        /\ steps = <<"market_conditions", "moving_averages", "volume_profile",
                     "delta_divergence", "orderflow", "final_decision">>
        /\ signal # NoSignal
        /\ signal.action \in {"buy", "sell", "wait"}


---------------------------------------------------------------------------
(* Claims about the orders of one execution *)

\* C33: whenever the market entry order of _place_market_order was accepted
\* by the exchange, a protective stop order for the same quantity on the
\* opposite side was submitted and accepted before the call returned.
C33_AcceptedEntryHasStop ==
    (last_call.fn = "execute_signal" /\ submitted # <<>> /\ submitted[1].accepted) =>
        /\ Len(submitted) >= 2
        /\ submitted[2].type = "STOP_MARKET"
        /\ submitted[2].accepted
        /\ submitted[2].quantity = submitted[1].quantity
        /\ submitted[2].side # submitted[1].side

\* the three orders of the call were all accepted
AllAccepted ==
    /\ Len(submitted) = 3
    /\ \A i \in 1 .. 3 : submitted[i].accepted

\* C39: self.orders gains an entry only when the entry, stop-loss and
\* take-profit submissions of one execution all succeeded, and then it gains
\* the entry of that execution; when an exchange call of the execution fails,
\* execute_signal returns without raising and self.orders is left as it was,
\* also when the entry order was accepted before the failure.
C39_RecordOnlyCompleteExecutions ==
    last_call.fn = "execute_signal" =>
        /\ orders # last_call.orders =>
              /\ AllAccepted
              /\ orders = Append(last_call.orders,
                                 OrderRecord(submitted, last_call.signal))
        /\ (gates = GatesUpTo(5, "pass") /\ ~AllAccepted) =>
              /\ ~last_call.raised
              /\ orders = last_call.orders

\* the stop-loss order of an execution was refused after its entry order was
\* accepted, and the record still holds the one earlier execution only
C39_Witness ==
    /\ last_call.fn = "execute_signal"
    /\ Len(submitted) = 2
    /\ submitted[1].accepted /\ ~submitted[2].accepted
    /\ Len(orders) = 1
    /\ orders = last_call.orders


---------------------------------------------------------------------------
(* Claims about the daily loss and the delta history in the run loop *)

\* no operation of the program changes daily_pnl from the 0.0 of the
\* constructor: its only assignment besides is the daily reset to 0
DailyPnlStaysZero ==
    daily_pnl = 0

DeltaHistoryStaysEmpty ==
    delta_history = <<>>

\* C35: the delta history grows by one sample in every analysis cycle that
\* reaches the delta-divergence step.
C35_DeltaSampledEveryCycle ==
    [][(steps' # steps /\ \E i \in DOMAIN steps' : steps'[i] = "delta_divergence")
           => Len(delta_history') = Len(delta_history) + 1]_vars


---------------------------------------------------------------------------
(* Claims about the owner of a tracked trailing stop *)

\* the direction of the position open under id in positions: 1 long,
\* -1 short, 0 when there is none
DirectionOf(id, positions) ==
    IF \E i \in 1 .. Len(positions) : positions[i].positionSide = id
    THEN LET i == CHOOSE j \in 1 .. Len(positions) : positions[j].positionSide = id
         IN  IF positions[i].positionAmt > 0 THEN 1 ELSE -1
    ELSE 0

\* C36: a position that appears in open_positions under a position id that
\* was free, or that held a position of the opposite direction, starts with
\* no tracked stop: the active_stops entry of the earlier position is gone.
C36_NewPositionStartsWithoutStop ==
    [][\A id \in PositionSides :
          (/\ DirectionOf(id, open_positions') # 0
           /\ DirectionOf(id, open_positions') # DirectionOf(id, open_positions))
              => active_stops'[id] = NoStop]_vars


---------------------------------------------------------------------------
(* Claims about the fields of a returned signal *)

\* C37: in every signal returned by analyze_market, strength > 0 implies a
\* bias that is not neutral; action buy implies bias bullish and action sell
\* implies bias bearish; and action wait implies entry_price, stop_loss and
\* take_profit are all 0.
C37_ReturnedSignalConsistent ==
    (last_call.fn = "analyze_market" /\ ~last_call.raised) =>
        /\ signal.strength > 0 => signal.bias # "neutral"
        /\ signal.action = "buy" => signal.bias = "bullish"
        /\ signal.action = "sell" => signal.bias = "bearish"
        /\ signal.action = "wait" =>
              /\ signal.entry_price = 0
              /\ signal.stop_loss = 0
              /\ signal.take_profit = 0

\* a signal strong enough to trade that the market condition gate refused:
\* it has a direction, and waits with no prices set
C37_Witness ==
    /\ last_call.fn = "analyze_market" /\ ~last_call.raised
    /\ signal.strength >= MIN_SIGNAL_STRENGTH
    /\ signal.bias = "bearish"
    /\ signal.action = "wait"
    /\ signal.entry_price = 0


---------------------------------------------------------------------------
(* Claims about the interleaving of an execution *)

\* C38: a call of execute_signal starts only at the call of the run loop,
\* when no call is in progress; from the gate checks of a call to the end of
\* its order submissions and account refresh the run loop runs no analysis
\* cycle, no position monitoring and no further gate check; what happens at
\* the awaits in between, besides the call's own next step, is stream
\* ingestion (and the handling of a shutdown signal, which sets is_running).
C38_ExecutionNotInterleaved ==
    [][/\ (gates' # gates /\ gates' # <<>>) => pc = "execute"
       /\ pc \in SuspensionPoints =>
             /\ pc' \in {pc, "monitor"} \cup SuspensionPoints
             /\ UNCHANGED <<steps, signal, gates, monitored, active_stops,
                            analysis_counter, condVars>>
             /\ pc' = pc =>
                   UNCHANGED <<cfgVars, acctVars, riskVars, now, callVars,
                               last_call>>]_vars

\* the entry order of an execution was accepted and its stop-loss order is
\* awaited; a trade arrived since the decision, and no monitoring has run
C38_Witness ==
    /\ pc = "stop_loss"
    /\ Len(submitted) = 1 /\ submitted[1].accepted
    /\ current_price # signal.entry_price
    /\ ~monitored

====
